---- MODULE Spec2Model ----
(***************************************************************************)
(* The chat client of ai-illegal-guide-chatbot: the zustand session store  *)
(* (chatStore), the API client's stream reader (streamChatMessage) and the *)
(* useChat hook's connection monitor and sendMessageWithRetry.             *)
(*                                                                         *)
(* The specifications share the variables:                                 *)
(*   Spec       the session store and its send / stream workflows          *)
(*   SpecInputs the store driven with inputs it rejects as well            *)
(*   SpecStream one call of ApiClient.streamChatMessage                    *)
(*   SpecMon    one mounted useChat hook: checkConnection and its timers   *)
(*   SpecRetry  one call of sendMessageWithRetry, beside the monitor       *)
(*   SpecTitle  generateSessionTitle applied to one first message          *)
(*   SpecClock  sendMessage and retryLastMessage as the clock advances     *)
(*   SpecRestart the store and the first probe in a process that restarts  *)
(*   SpecNotify one store operation and what a subscriber is notified of   *)
(*   SpecMeta   streamMessage with the metadata events of the stream       *)
(*   SpecRequest one call of ApiClient.request                             *)
(*   SpecMonLive the monitor for as long as its view lives, with fairness  *)
(***************************************************************************)
EXTENDS Integers, Sequences, FiniteSets, TLC

VARIABLES
    \* ---- chatStore (ChatState) ----
    sessions,        \* ChatSession[], newest first
    currentSession,  \* <<>> for null, <<s>> for a session
    isLoading,       \* global in-flight flag
    error,           \* NoError for null, else the message
    isConnected,     \* last known transport health
    \* ---- the async calls of sendMessage / streamMessage in progress ----
    calls,           \* call slot -> the locals of that invocation
    nextSid,         \* generateId(): the next fresh session id
    \* ---- one call of ApiClient.streamChatMessage ----
    spc,             \* position in streamChatMessage
    reads,           \* what reader.read() will still deliver
    consumed,        \* how many of reads were delivered
    fired,           \* the callbacks invoked so far, in order
    \* ---- one useChat hook instance ----
    now,             \* time in ms
    mounted,         \* the effect: "no", "mounted", then "torn down"
    timeouts,        \* pending setTimeout timers: set of [id, at]
    reconnectTimeoutRef, \* reconnectTimeoutRef.current: 0 for null, else a timer id
    interval,        \* the setInterval timer: <<>> or <<next firing time>>
    probes,          \* number of healthCheck requests in flight
    nextTimer,       \* next timer id
    \* ---- one call of sendMessageWithRetry ----
    orch,            \* the locals of the call and its position
    \* ---- one application of generateSessionTitle ----
    titleArg,        \* firstMessage
    titleRet,        \* <<>> before the call, <<title>> after it
    \* ---- the wall clock the store reads ----
    clock,           \* what Date.now() returns
    \* ---- a subscriber of the store ----
    observed,        \* the states the last store operation notified it of
    \* ---- one call of ApiClient.request ----
    fetchResult,     \* how fetch(url, config) settles
    requestResult    \* <<>> before the call, <<how request settles>> after it

storeVars ==
    <<sessions, currentSession, isLoading, error, isConnected, calls, nextSid>>
streamVars == <<spc, reads, consumed, fired>>
monVars == <<now, mounted, timeouts, reconnectTimeoutRef, interval, probes, nextTimer>>
retryVars == <<orch>>
titleVars == <<titleArg, titleRet>>
clockVars == <<clock>>
notifyVars == <<observed>>
requestVars == <<fetchResult, requestResult>>
\* what the store, the stream reader, the monitor and the orchestrator leave alone
outsideVars == <<clockVars, notifyVars, requestVars>>
vars == <<sessions, currentSession, isLoading, error, isConnected, calls, nextSid,
          spc, reads, consumed, fired,
          now, mounted, timeouts, reconnectTimeoutRef, interval, probes, nextTimer,
          orch, titleArg, titleRet, clock, observed, fetchResult, requestResult>>

(***************************************************************************)
(* Strings.  A string is a sequence of runs [c, n]: the character c         *)
(* repeated n >= 1 times, adjacent runs holding different characters, so    *)
(* that two strings are equal exactly when their run sequences are.  A     *)
(* 10001-character message is one run.                                     *)
(***************************************************************************)
Run(ch, k) == <<[c |-> ch, n |-> k]>>

RECURSIVE Length(_)
Length(s) == IF s = <<>> THEN 0 ELSE Head(s).n + Length(Tail(s))

\* a + b
Cat(a, b) ==
    IF a = <<>> THEN b
    ELSE IF b = <<>> THEN a
    ELSE IF a[Len(a)].c = b[1].c
         THEN SubSeq(a, 1, Len(a) - 1)
              \o Run(b[1].c, a[Len(a)].n + b[1].n)
              \o Tail(b)
         ELSE a \o b

IsWhitespace(ch) == ch \in {" ", "\n", "\t"}

RECURSIVE TrimStart(_)
TrimStart(s) ==
    IF s # <<>> /\ IsWhitespace(Head(s).c) THEN TrimStart(Tail(s)) ELSE s

RECURSIVE TrimEnd(_)
TrimEnd(s) ==
    IF s # <<>> /\ IsWhitespace(s[Len(s)].c)
    THEN TrimEnd(SubSeq(s, 1, Len(s) - 1))
    ELSE s

\* String.prototype.trim
Trim(s) == TrimEnd(TrimStart(s))

NoError == "null"
MaxMessageLength == 10000
TitleWords == 6

\* s.split(' ').slice(0, k).join(' '): the prefix of s that ends before its
\* k-th space, all of s when it has fewer than k spaces
RECURSIVE FirstWords(_, _)
FirstWords(s, k) ==
    IF s = <<>> THEN <<>>
    ELSE IF Head(s).c # " " THEN Cat(<<Head(s)>>, FirstWords(Tail(s), k))
    ELSE IF Head(s).n < k THEN Cat(<<Head(s)>>, FirstWords(Tail(s), k - Head(s).n))
    ELSE IF k > 1 THEN Run(" ", k - 1)
    ELSE <<>>

\* 'New Chat'
NewChat ==
    Run("N", 1) \o Run("e", 1) \o Run("w", 1) \o Run(" ", 1) \o Run("C", 1)
    \o Run("h", 1) \o Run("a", 1) \o Run("t", 1)

\* generateSessionTitle appending '...' to every title
generateSessionTitleEllipsis(firstMessage) ==
    LET trimmed == Trim(firstMessage)
        title == FirstWords(trimmed, TitleWords)
    IN  IF trimmed = <<>> THEN NewChat ELSE Cat(title, Run(".", 3))

generateSessionTitle(firstMessage) ==
    LET trimmed == Trim(firstMessage)
        title == FirstWords(trimmed, TitleWords)
    IN  IF trimmed = <<>> THEN NewChat
        ELSE IF Length(title) < Length(trimmed) THEN Cat(title, Run(".", 3))
        ELSE title

\* validateMessage measuring the content after trimming it
validateTrimmed(content) ==
    IF Trim(content) = <<>> THEN "Message cannot be empty"
    ELSE IF Length(Trim(content)) > MaxMessageLength
         THEN "Message too long (max 10000 characters)"
    ELSE NoError

validateMessage(content) ==
    IF Trim(content) = <<>> THEN "Message cannot be empty"
    ELSE IF Length(content) > MaxMessageLength
         THEN "Message too long (max 10000 characters)"
    ELSE NoError


(***************************************************************************)
(* Bounds of the model.                                                    *)
(***************************************************************************)
MaxSessions == 2    \* sessions ever created or imported
MaxCalls == 2       \* sendMessage / streamMessage invocations that pass validation

(***************************************************************************)
(* Inputs.                                                                 *)
(***************************************************************************)
Empty == <<>>
Blank == Run(" ", 2)
\* exactly MaxMessageLength characters, the first a space
PaddedLongest == Run(" ", 1) \o Run("a", MaxMessageLength - 1)
TooLong == Run("a", MaxMessageLength + 1)
PaddedTooLong == Run(" ", 1) \o Run("a", MaxMessageLength)
Contents == {Empty, Blank, PaddedLongest, TooLong, PaddedTooLong}
Accepted == {PaddedLongest}

Hel == Run("H", 1) \o Run("e", 1) \o Run("l", 1)
Lo == Run("l", 1) \o Run("o", 1)
\* the chunk records of the streamed response, in order
StreamChunks == <<Hel, Lo>>
ResponseText == Run("R", 1)
\* the ChatResponse that sendChatMessage resolves with
ChatResponse ==
    [query |-> "q", response |-> ResponseText, confidence_score |-> 90,
     risk_assessment |-> [overall_risk |-> "low"],
     context_sources |->
         <<[id |-> "s1", title |-> "Source", content |-> "text",
            relevance_score |-> 80, source_type |-> "document"]>>,
     processing_time |-> 12]
\* the metadata with context_sources handed on as received
metadataUnmapped(response) ==
    <<[confidence_score |-> response.confidence_score,
       risk_assessment |-> response.risk_assessment,
       context_sources |-> response.context_sources,
       processing_time |-> response.processing_time]>>
\* the metadata that sendMessage builds from the response
metadataOf(response) ==
    <<[confidence_score |-> response.confidence_score,
       risk_assessment |-> response.risk_assessment,
       context_sources |->
           [k \in DOMAIN response.context_sources |->
               [id |-> response.context_sources[k].id,
                title |-> response.context_sources[k].title,
                relevance_score |-> response.context_sources[k].relevance_score]],
       processing_time |-> response.processing_time]>>
ResponseMeta == metadataOf(ChatResponse)
\* metadata: <<>> for undefined, else <<the object>>
NoMeta == <<>>
StreamMetas == {<<[confidence_score |-> 90]>>, <<[processing_time |-> 12]>>}
NetworkErrorMessage == "Network error: Unable to connect to the server"
StreamErrors == {NetworkErrorMessage}
\* 'Sorry, I encountered an error. Please try again.'
SendApology ==
    Run("S", 1) \o Run("o", 1) \o Run("r", 2) \o Run("y", 1) \o Run(",", 1)
    \o Run(" ", 1) \o Run("I", 1) \o Run(" ", 1) \o Run("e", 1)
    \o Run("n", 1) \o Run("c", 1) \o Run("o", 1) \o Run("u", 1)
    \o Run("n", 1) \o Run("t", 1) \o Run("e", 1) \o Run("r", 1)
    \o Run("e", 1) \o Run("d", 1) \o Run(" ", 1) \o Run("a", 1)
    \o Run("n", 1) \o Run(" ", 1) \o Run("e", 1) \o Run("r", 2)
    \o Run("o", 1) \o Run("r", 1) \o Run(".", 1) \o Run(" ", 1)
    \o Run("P", 1) \o Run("l", 1) \o Run("e", 1) \o Run("a", 1)
    \o Run("s", 1) \o Run("e", 1) \o Run(" ", 1) \o Run("t", 1)
    \o Run("r", 1) \o Run("y", 1) \o Run(" ", 1) \o Run("a", 1)
    \o Run("g", 1) \o Run("a", 1) \o Run("i", 1) \o Run("n", 1)
    \o Run(".", 1)
\* 'Sorry, I encountered an error.'
StreamApology ==
    Run("S", 1) \o Run("o", 1) \o Run("r", 2) \o Run("y", 1) \o Run(",", 1)
    \o Run(" ", 1) \o Run("I", 1) \o Run(" ", 1) \o Run("e", 1)
    \o Run("n", 1) \o Run("c", 1) \o Run("o", 1) \o Run("u", 1)
    \o Run("n", 1) \o Run("t", 1) \o Run("e", 1) \o Run("r", 1)
    \o Run("e", 1) \o Run("d", 1) \o Run(" ", 1) \o Run("a", 1)
    \o Run("n", 1) \o Run(" ", 1) \o Run("e", 1) \o Run("r", 2)
    \o Run("o", 1) \o Run("r", 1) \o Run(".", 1)

(***************************************************************************)
(* Messages and sessions.                                                  *)
(***************************************************************************)
NoTitle == <<>>

Message(id, role, content, loading) ==
    [id |-> id, role |-> role, content |-> content, isLoading |-> loading,
     error |-> NoError, metadata |-> NoMeta]

\* Date.now()
DateNow == clock

NewSession(id) ==
    [id |-> id, messages |-> <<>>, title |-> NoTitle,
     created_at |-> DateNow, updated_at |-> DateNow]

\* { ...target, ...updates }
Merge(target, updates) ==
    [f \in DOMAIN target |-> IF f \in DOMAIN updates THEN updates[f] ELSE target[f]]

\* Array.prototype.findIndex, 1-based; 0 for -1
FindIndex(seq, Test(_)) ==
    IF \E i \in 1..Len(seq) : Test(seq[i])
    THEN CHOOSE i \in 1..Len(seq) : Test(seq[i]) /\ \A j \in 1..(i - 1) : ~Test(seq[j])
    ELSE 0

\* Array.prototype.filter
Filter(seq, Test(_)) == SelectSeq(seq, Test)

updateSessionInArray(ss, sessionId, updates) ==
    LET HasId(s) == s.id = sessionId
        index == FindIndex(ss, HasId)
    IN  IF index = 0 THEN ss
        ELSE [ss EXCEPT ![index] = Merge(ss[index], updates)]

(***************************************************************************)
(* The store.  get() is State; a handler threads the state through its     *)
(* set() calls and Commit writes the result.                               *)
(***************************************************************************)
State ==
    [currentSession |-> currentSession, sessions |-> sessions,
     isLoading |-> isLoading, error |-> error, isConnected |-> isConnected]

Commit(st) ==
    /\ currentSession' = st.currentSession
    /\ sessions' = st.sessions
    /\ isLoading' = st.isLoading
    /\ error' = st.error
    /\ isConnected' = st.isConnected

createSession(st, id) ==
    [st EXCEPT !.currentSession = <<NewSession(id)>>,
               !.sessions = <<NewSession(id)>> \o st.sessions,
               !.error = NoError,
               !.isLoading = FALSE]

\* loadSession dropping the current session when the id is not found
loadSessionDropsCurrent(st, sessionId) ==
    LET HasId(s) == s.id = sessionId
        index == FindIndex(st.sessions, HasId)
    IN  IF sessionId = 0 THEN [st EXCEPT !.error = "Invalid session ID"]
        ELSE IF index = 0
             THEN [st EXCEPT !.currentSession = <<>>,
                             !.error = "Session not found", !.isLoading = FALSE]
        ELSE [st EXCEPT !.currentSession = <<st.sessions[index]>>,
                        !.error = NoError,
                        !.isLoading = FALSE]

\* how the promise of loadSession settles: "resolved", or the message of
\* the error it is rejected with
loadSessionSettles(st, sessionId) ==
    LET HasId(s) == s.id = sessionId
    IN  IF sessionId = 0 THEN "resolved"
        ELSE IF FindIndex(st.sessions, HasId) = 0 THEN "Session not found"
        ELSE "resolved"

loadSession(st, sessionId) ==
    LET HasId(s) == s.id = sessionId
        index == FindIndex(st.sessions, HasId)
    IN  IF sessionId = 0 THEN [st EXCEPT !.error = "Invalid session ID"]
        ELSE IF index = 0
             THEN [st EXCEPT !.error = "Session not found", !.isLoading = FALSE]
        ELSE [st EXCEPT !.currentSession = <<st.sessions[index]>>,
                        !.error = NoError,
                        !.isLoading = FALSE]

clearCurrentSession(st) ==
    [st EXCEPT !.currentSession = <<>>, !.error = NoError]

\* deleteSession as sessions.splice(findIndex(...), 1): an index of -1
\* removes the last session
deleteSessionSplice(st, sessionId) ==
    LET HasId(s) == s.id = sessionId
        index == FindIndex(st.sessions, HasId)
        at == IF index = 0 THEN Len(st.sessions) ELSE index
    IN  [st EXCEPT !.sessions = SubSeq(@, 1, at - 1) \o SubSeq(@, at + 1, Len(@)),
                   !.currentSession =
                       IF @ # <<>> /\ @[1].id = sessionId THEN <<>> ELSE @]

deleteSession(st, sessionId) ==
    LET Other(s) == s.id # sessionId
    IN  [st EXCEPT !.sessions = Filter(st.sessions, Other),
                   !.currentSession =
                       IF @ # <<>> /\ @[1].id = sessionId THEN <<>> ELSE @]

\* addMessage with messages.unshift(message)
addMessageUnshift(st, message) ==
    IF st.currentSession = <<>> THEN st
    ELSE LET cur == [st.currentSession[1] EXCEPT !.messages = <<message>> \o @,
                                                 !.updated_at = DateNow]
         IN  [st EXCEPT !.currentSession = <<cur>>,
                        !.sessions = updateSessionInArray(
                            st.sessions, cur.id,
                            [messages |-> cur.messages, updated_at |-> DateNow])]

addMessage(st, message) ==
    IF st.currentSession = <<>> THEN st
    ELSE LET cur == [st.currentSession[1] EXCEPT !.messages = Append(@, message),
                                                 !.updated_at = DateNow]
         IN  [st EXCEPT !.currentSession = <<cur>>,
                        !.sessions = updateSessionInArray(
                            st.sessions, cur.id,
                            [messages |-> cur.messages, updated_at |-> DateNow])]

\* updateMessage writing the last message of the session
updateMessageLast(st, messageId, updates) ==
    IF st.currentSession = <<>> THEN st
    ELSE LET HasId(m) == m.id = messageId
             messageIndex == FindIndex(st.currentSession[1].messages, HasId)
             last == Len(st.currentSession[1].messages)
             cur == [st.currentSession[1] EXCEPT
                         !.messages[last] = Merge(@, updates)]
         IN  IF messageIndex = 0 THEN st
             ELSE [st EXCEPT !.currentSession = <<cur>>,
                             !.sessions = updateSessionInArray(
                                 st.sessions, cur.id, [messages |-> cur.messages])]

\* updateMessage writing the current session only
updateMessageCurrentOnly(st, messageId, updates) ==
    IF st.currentSession = <<>> THEN st
    ELSE LET HasId(m) == m.id = messageId
             messageIndex == FindIndex(st.currentSession[1].messages, HasId)
             cur == [st.currentSession[1] EXCEPT
                         !.messages[messageIndex] = Merge(@, updates)]
         IN  IF messageIndex = 0 THEN st
             ELSE [st EXCEPT !.currentSession = <<cur>>]

updateMessage(st, messageId, updates) ==
    IF st.currentSession = <<>> THEN st
    ELSE LET HasId(m) == m.id = messageId
             messageIndex == FindIndex(st.currentSession[1].messages, HasId)
             cur == [st.currentSession[1] EXCEPT
                         !.messages[messageIndex] = Merge(@, updates)]
         IN  IF messageIndex = 0 THEN st
             ELSE [st EXCEPT !.currentSession = <<cur>>,
                             !.sessions = updateSessionInArray(
                                 st.sessions, cur.id, [messages |-> cur.messages])]

deleteMessage(st, messageId) ==
    IF st.currentSession = <<>> THEN st
    ELSE LET Other(m) == m.id # messageId
             cur == [st.currentSession[1] EXCEPT !.messages = Filter(@, Other)]
         IN  [st EXCEPT !.currentSession = <<cur>>,
                        !.sessions = updateSessionInArray(
                            st.sessions, cur.id, [messages |-> cur.messages])]

setError(st, err) == [st EXCEPT !.error = err]
clearError(st) == [st EXCEPT !.error = NoError]
setConnected(st, connected) == [st EXCEPT !.isConnected = connected]

clearAllSessions(st) ==
    [st EXCEPT !.sessions = <<>>, !.currentSession = <<>>, !.error = NoError]


(***************************************************************************)
(* sendMessage and streamMessage.  An invocation that passes validation    *)
(* takes a call slot, which holds its locals while it is suspended: at     *)
(* await createSession() ("creating"), at await sendChatMessage()          *)
(* ("inflight") and between the callbacks of streamChatMessage()           *)
(* ("streaming").  origin, pair, got and meta record where the call came   *)
(* from and the chunks and the metadata it was given; no handler reads     *)
(* them.  A call that returned leaves nothing behind.                      *)
(***************************************************************************)
Slots == 1..MaxCalls
FirstSid == 101
CanCreate == nextSid < FirstSid + MaxSessions

IdleCall ==
    [kind |-> "none", origin |-> "none", pc |-> "idle", content |-> <<>>,
     sid |-> 0, asstId |-> 0, acc |-> <<>>, got |-> <<>>, pair |-> 0,
     meta |-> NoMeta]

Returned == [IdleCall EXCEPT !.pc = "done"]

HasFreeSlot == \E i \in DOMAIN calls : calls[i].pc = "idle"
FreeSlot ==
    CHOOSE i \in DOMAIN calls : calls[i].pc = "idle" /\ \A j \in 1..(i - 1) : calls[j].pc # "idle"

IsUser(m) == m.role = "user"

\* generateId() in sendMessage / streamMessage: the k-th id made by call i.
\* Ids are taken to be unique; which value a call draws plays no part.
generateId(i, k) == 2 * (i - 1) + k

\* Proceed adding the placeholder before the user message
ProceedPlaceholderFirst(i, call, st) ==
    LET userMessage == Message(generateId(i, 1), "user", Trim(call.content), FALSE)
        assistantMessageId == generateId(i, 2)
        assistantMessage == Message(assistantMessageId, "assistant", <<>>, TRUE)
        added == addMessage(addMessage(st, assistantMessage), userMessage)
    IN  /\ Commit([added EXCEPT !.isLoading = TRUE, !.error = NoError])
        /\ UNCHANGED nextSid
        /\ calls' = [calls EXCEPT ![i] =
               [call EXCEPT !.pc = IF call.kind = "send" THEN "inflight" ELSE "streaming",
                            !.sid = st.currentSession[1].id,
                            !.asstId = assistantMessageId]]

\* from the two addMessage calls to the request being issued
Proceed(i, call, st) ==
    LET userMessage == Message(generateId(i, 1), "user", Trim(call.content), FALSE)
        assistantMessageId == generateId(i, 2)
        assistantMessage == Message(assistantMessageId, "assistant", <<>>, TRUE)
        added == addMessage(addMessage(st, userMessage), assistantMessage)
    IN  /\ Commit([added EXCEPT !.isLoading = TRUE, !.error = NoError])
        /\ UNCHANGED nextSid
        /\ calls' = [calls EXCEPT ![i] =
               [call EXCEPT !.pc = IF call.kind = "send" THEN "inflight" ELSE "streaming",
                            !.sid = st.currentSession[1].id,
                            !.asstId = assistantMessageId]]

\* from the entry of sendMessage / streamMessage to its first suspension
Begin(kind, origin, pair, content, st) ==
    LET validation == validateMessage(content)
        call == [IdleCall EXCEPT !.kind = kind, !.origin = origin, !.pair = pair,
                                 !.content = content]
    IN  IF validation # NoError
        THEN /\ Commit([st EXCEPT !.error = validation])
             /\ UNCHANGED <<calls, nextSid>>
        ELSE /\ HasFreeSlot
             /\ IF st.currentSession = <<>>
                THEN /\ CanCreate
                     /\ Commit(createSession(st, nextSid))
                     /\ nextSid' = nextSid + 1
                     /\ calls' = [calls EXCEPT ![FreeSlot] = [call EXCEPT !.pc = "creating"]]
                ELSE Proceed(FreeSlot, call, st)

SendMessage(content) ==
    /\ Begin("send", "send", 0, content, State)
    /\ UNCHANGED <<streamVars, monVars, retryVars, titleVars, outsideVars>>

StreamMessage(content) ==
    /\ Begin("stream", "stream", 0, content, State)
    /\ UNCHANGED <<streamVars, monVars, retryVars, titleVars, outsideVars>>

\* the continuation of await get().createSession()
Resume(i) ==
    /\ calls[i].pc = "creating"
    /\ IF currentSession = <<>>
       THEN /\ Commit([State EXCEPT !.error = "Failed to create session"])
            /\ calls' = [calls EXCEPT ![i] = Returned]
            /\ UNCHANGED nextSid
       ELSE Proceed(i, calls[i], State)
    /\ UNCHANGED <<streamVars, monVars, retryVars, titleVars, outsideVars>>

setTitle(st, content) ==
    LET session == st.currentSession
        title == generateSessionTitle(content)
    IN  IF session # <<>> /\ Len(Filter(session[1].messages, IsUser)) = 1
        THEN [st EXCEPT !.currentSession[1].title = title,
                        !.currentSession[1].updated_at = DateNow,
                        !.sessions = updateSessionInArray(
                            st.sessions, session[1].id,
                            [title |-> title, updated_at |-> DateNow])]
        ELSE st

\* sendChatMessage resolved
SendSucceeds(i) ==
    /\ calls[i].pc = "inflight"
    /\ LET updated == updateMessage(State, calls[i].asstId,
                          [content |-> ResponseText, isLoading |-> FALSE,
                           metadata |-> ResponseMeta])
       IN  Commit([setTitle(updated, calls[i].content) EXCEPT !.isLoading = FALSE])
    /\ calls' = [calls EXCEPT ![i] = Returned]
    /\ UNCHANGED <<nextSid, streamVars, monVars, retryVars, titleVars, outsideVars>>

\* SendFails removing the placeholder of the failed request
SendFailsRollsBack(i, errorMessage) ==
    /\ calls[i].pc = "inflight"
    /\ LET updated == deleteMessage(State, calls[i].asstId)
       IN  Commit([updated EXCEPT !.error = errorMessage, !.isLoading = FALSE])
    /\ calls' = [calls EXCEPT ![i] = Returned]
    /\ UNCHANGED <<nextSid, streamVars, monVars, retryVars, titleVars, outsideVars>>

\* sendChatMessage rejected: it throws APIError only
SendFails(i, errorMessage) ==
    /\ calls[i].pc = "inflight"
    /\ LET updated == updateMessage(State, calls[i].asstId,
                          [content |-> SendApology, isLoading |-> FALSE,
                           error |-> errorMessage])
       IN  Commit([updated EXCEPT !.error = errorMessage, !.isLoading = FALSE])
    /\ calls' = [calls EXCEPT ![i] = Returned]
    /\ UNCHANGED <<nextSid, streamVars, monVars, retryVars, titleVars, outsideVars>>

\* onChunk
StreamChunk(i, chunk) ==
    /\ calls[i].pc = "streaming"
    /\ Len(calls[i].got) < Len(StreamChunks)
    /\ chunk = StreamChunks[Len(calls[i].got) + 1]
    /\ LET accumulatedContent == Cat(calls[i].acc, chunk)
       IN  /\ Commit(updateMessage(State, calls[i].asstId,
                         [content |-> accumulatedContent, isLoading |-> TRUE]))
           /\ calls' = [calls EXCEPT ![i].acc = accumulatedContent,
                                     ![i].got = Append(@, chunk)]
    /\ UNCHANGED <<nextSid, streamVars, monVars, retryVars, titleVars, outsideVars>>

\* onMetadata
StreamMetadata(i, metadata) ==
    /\ calls[i].pc = "streaming"
    /\ Commit(updateMessage(State, calls[i].asstId, [metadata |-> metadata]))
    /\ calls' = [calls EXCEPT ![i].meta = metadata]
    /\ UNCHANGED <<nextSid, streamVars, monVars, retryVars, titleVars, outsideVars>>

\* onError
StreamError(i, err) ==
    /\ calls[i].pc = "streaming"
    /\ LET updated == updateMessage(State, calls[i].asstId,
                          [content |-> IF calls[i].acc # <<>> THEN calls[i].acc
                                       ELSE StreamApology,
                           isLoading |-> FALSE, error |-> err])
       IN  Commit([updated EXCEPT !.error = err, !.isLoading = FALSE])
    /\ calls' = [calls EXCEPT ![i] = Returned]
    /\ UNCHANGED <<nextSid, streamVars, monVars, retryVars, titleVars, outsideVars>>

\* onComplete leaving the global flag as it is
StreamCompleteKeepsLoading(i) ==
    /\ calls[i].pc = "streaming"
    /\ Commit(updateMessage(State, calls[i].asstId, [isLoading |-> FALSE]))
    /\ calls' = [calls EXCEPT ![i] = Returned]
    /\ UNCHANGED <<nextSid, streamVars, monVars, retryVars, titleVars, outsideVars>>

\* onComplete
StreamComplete(i) ==
    /\ calls[i].pc = "streaming"
    /\ Commit([updateMessage(State, calls[i].asstId, [isLoading |-> FALSE])
                  EXCEPT !.isLoading = FALSE])
    /\ calls' = [calls EXCEPT ![i] = Returned]
    /\ UNCHANGED <<nextSid, streamVars, monVars, retryVars, titleVars, outsideVars>>


(***************************************************************************)
(* The other store operations, as the user interface invokes them.         *)
(***************************************************************************)
AbsentId == 99
SessionIds == {sessions[i].id : i \in 1..Len(sessions)}

CreateSession ==
    /\ CanCreate
    /\ Commit(createSession(State, nextSid))
    /\ nextSid' = nextSid + 1
    /\ UNCHANGED <<calls, streamVars, monVars, retryVars, titleVars, outsideVars>>

\* sessionId 0 stands for the empty string
LoadSession(sessionId) ==
    /\ Commit(loadSession(State, sessionId))
    /\ UNCHANGED <<calls, nextSid, streamVars, monVars, retryVars, titleVars, outsideVars>>

ClearCurrentSession ==
    /\ Commit(clearCurrentSession(State))
    /\ UNCHANGED <<calls, nextSid, streamVars, monVars, retryVars, titleVars, outsideVars>>

DeleteSession(sessionId) ==
    /\ Commit(deleteSession(State, sessionId))
    /\ UNCHANGED <<calls, nextSid, streamVars, monVars, retryVars, titleVars, outsideVars>>

ClearAllSessions ==
    /\ Commit(clearAllSessions(State))
    /\ UNCHANGED <<calls, nextSid, streamVars, monVars, retryVars, titleVars, outsideVars>>

RetryLastMessage ==
    /\ IF currentSession = <<>> THEN UNCHANGED storeVars
       ELSE LET messages == currentSession[1].messages
                users == {i \in 1..Len(messages) : messages[i].role = "user"}
                lastUserMessage == messages[CHOOSE i \in users : \A j \in users : j <= i]
                lastMessage == messages[Len(messages)]
                failed == /\ lastMessage.role = "assistant"
                          /\ lastMessage.error # NoError \/ lastMessage.isLoading
                \* the id of the user message of [user, assistant (error)]
                pair == IF /\ Len(messages) = 2
                           /\ messages[1].role = "user"
                           /\ messages[2].role = "assistant"
                           /\ messages[2].error # NoError
                        THEN messages[1].id ELSE 0
            IN  IF Len(messages) < 2 \/ users = {} THEN UNCHANGED storeVars
                ELSE Begin("send", "retry", pair, lastUserMessage.content,
                           IF failed THEN deleteMessage(State, lastMessage.id) ELSE State)
    /\ UNCHANGED <<streamVars, monVars, retryVars, titleVars, outsideVars>>

\* the properties of a message or a session whose value is undefined
Undefined(o) ==
    {f \in DOMAIN o : \/ f = "error" /\ o[f] = NoError
                      \/ f = "metadata" /\ o[f] = NoMeta
                      \/ f = "title" /\ o[f] = NoTitle}

\* JSON.stringify of an object: the properties with a value
JSONstringify(o) == [f \in DOMAIN o \ Undefined(o) |-> o[f]]

\* JSON.stringify of a session: its messages are objects in turn
stringifySession(s) ==
    [f \in DOMAIN s \ Undefined(s) |->
        IF f = "messages"
        THEN [k \in 1..Len(s.messages) |-> JSONstringify(s.messages[k])]
        ELSE s[f]]

\* o.f, undefined when the parsed object has no such property
Property(o, f, undefined) == IF f \in DOMAIN o THEN o[f] ELSE undefined

\* a parsed object read as a Message
messageOf(o) ==
    [id |-> o.id, role |-> o.role, content |-> o.content,
     isLoading |-> o.isLoading,
     error |-> Property(o, "error", NoError),
     metadata |-> Property(o, "metadata", NoMeta)]

\* a parsed object read as a ChatSession
sessionOf(o) ==
    [id |-> o.id,
     messages |-> [k \in 1..Len(o.messages) |-> messageOf(o.messages[k])],
     title |-> Property(o, "title", NoTitle),
     created_at |-> o.created_at, updated_at |-> o.updated_at]

\* JSON.stringify({ session, exported_at, version }); <<>> for null
exportSession(st) ==
    IF st.currentSession = <<>> THEN <<>>
    ELSE <<[json |-> TRUE,
            session |-> <<stringifySession(st.currentSession[1])>>,
            exported_at |-> DateNow,
            version |-> "1.0"]>>

NotJson == [json |-> FALSE]
NoMessages == [json |-> TRUE, session |-> <<[id |-> AbsentId, title |-> NoTitle]>>]
NoSessionKey == [json |-> TRUE, version |-> "1.0"]

\* importSession keeping the id of the exported session
importSessionKeepsId(st, data, id) ==
    IF /\ data.json
       /\ "session" \in DOMAIN data
       /\ data.session # <<>>
       /\ "messages" \in DOMAIN data.session[1]
    THEN LET session == [sessionOf(data.session[1]) EXCEPT
                             !.created_at = DateNow, !.updated_at = DateNow]
         IN  [st EXCEPT !.currentSession = <<session>>,
                        !.sessions = <<session>> \o st.sessions,
                        !.error = NoError]
    ELSE [st EXCEPT !.error = "Invalid session data format"]

importSession(st, data, id) ==
    IF /\ data.json
       /\ "session" \in DOMAIN data
       /\ data.session # <<>>
       /\ "messages" \in DOMAIN data.session[1]
    THEN LET session == [sessionOf(data.session[1]) EXCEPT
                             !.id = id,
                             !.created_at = DateNow, !.updated_at = DateNow]
         IN  [st EXCEPT !.currentSession = <<session>>,
                        !.sessions = <<session>> \o st.sessions,
                        !.error = NoError]
    ELSE [st EXCEPT !.error = "Invalid session data format"]

ImportSession(data) ==
    /\ CanCreate
    /\ Commit(importSession(State, data, nextSid))
    /\ nextSid' = IF error' = NoError THEN nextSid + 1 ELSE nextSid
    /\ UNCHANGED <<calls, streamVars, monVars, retryVars, titleVars, outsideVars>>

\* the state the store is created with
initialState ==
    [currentSession |-> <<>>, sessions |-> <<>>, isLoading |-> FALSE,
     error |-> NoError, isConnected |-> TRUE]

\* persist: every part of the state is written
partializeAll(state) == state

\* persist: the part of the state that is written
partialize(state) == [sessions |-> state.sessions]

\* what persist stores: JSON.stringify of the part
persisted(part) ==
    [f \in DOMAIN part |->
        IF f \in {"sessions", "currentSession"}
        THEN [k \in 1..Len(part[f]) |-> stringifySession(part[f][k])]
        ELSE part[f]]

\* rehydration: the stored text parsed and merged over the initial state
rehydrate(text) ==
    Merge(initialState,
          [f \in DOMAIN text |->
              IF f \in {"sessions", "currentSession"}
              THEN [k \in 1..Len(text[f]) |-> sessionOf(text[f][k])]
              ELSE text[f]])

\* the process ends and starts again: the store is rebuilt from its initial
\* state and what was persisted; every pending call, probe and timer is gone
Restart ==
    /\ Commit(rehydrate(persisted(partialize(State))))
    /\ calls' = [i \in Slots |->
                    IF calls[i].pc \in {"idle", "done"} THEN calls[i]
                    ELSE Returned]
    /\ mounted' = "no" /\ timeouts' = {} /\ reconnectTimeoutRef' = 0
    /\ interval' = <<>> /\ probes' = 0 /\ nextTimer' = 1
    /\ UNCHANGED <<now, nextSid, streamVars, retryVars, titleVars, outsideVars>>

StreamOff == /\ spc = "off" /\ reads = <<>> /\ consumed = 0 /\ fired = <<>>
MonOff ==
    /\ now = 0 /\ mounted = "no" /\ timeouts = {} /\ reconnectTimeoutRef = 0
    /\ interval = <<>> /\ probes = 0 /\ nextTimer = 1

StoreInit ==
    /\ sessions = <<>>
    /\ currentSession = <<>>
    /\ isLoading = FALSE
    /\ error = NoError
    /\ isConnected = TRUE
    /\ calls = [i \in Slots |-> IdleCall]
    /\ nextSid = FirstSid

IdleOrch ==
    [pc |-> "idle", kind |-> "none", content |-> <<>>, attempt |-> 0,
     isConnected |-> TRUE, slot |-> 0, invocations |-> 0, until |-> 0]
RetryOff == orch = IdleOrch
TitleOff == titleArg = <<>> /\ titleRet = <<>>
ClockOff == clock = 0
NotifyOff == observed = <<>>
RequestOff == fetchResult = <<>> /\ requestResult = <<>>

Init == StoreInit /\ StreamOff /\ MonOff /\ RetryOff /\ TitleOff /\ ClockOff /\ NotifyOff /\ RequestOff

\* the store driven with inputs it accepts
Next ==
    \/ CreateSession
    \/ \E id \in SessionIds : LoadSession(id)
    \/ ClearCurrentSession
    \/ \E id \in SessionIds \cup {AbsentId} : DeleteSession(id)
    \/ ClearAllSessions
    \/ \E content \in Accepted : SendMessage(content)
    \/ \E content \in Accepted : StreamMessage(content)
    \/ \E i \in Slots : Resume(i)
    \/ \E i \in Slots : SendSucceeds(i)
    \/ \E i \in Slots, e \in StreamErrors : SendFails(i, e)
    \/ \E i \in Slots, chunk \in {Hel, Lo} : StreamChunk(i, chunk)
    \/ \E i \in Slots, e \in StreamErrors : StreamError(i, e)
    \/ \E i \in Slots : StreamComplete(i)
    \/ RetryLastMessage
    \/ \E data \in {exportSession(State)[i] : i \in 1..Len(exportSession(State))} :
           ImportSession(data)
    \/ Restart

Spec == Init /\ [][Next]_vars

\* the store driven with the inputs it rejects as well: every content, the
\* empty and an absent session id, import data of the wrong shape
NextInputs ==
    \/ CreateSession
    \/ \E id \in SessionIds \cup {0, AbsentId} : LoadSession(id)
    \/ ClearCurrentSession
    \/ \E id \in SessionIds \cup {AbsentId} : DeleteSession(id)
    \/ \E content \in Contents : SendMessage(content)
    \/ \E content \in Contents : StreamMessage(content)
    \/ \E i \in Slots : Resume(i)
    \/ \E i \in Slots : SendSucceeds(i)
    \/ \E i \in Slots, e \in StreamErrors : SendFails(i, e)
    \/ \E i \in Slots, chunk \in {Hel, Lo} : StreamChunk(i, chunk)
    \/ \E i \in Slots, e \in StreamErrors : StreamError(i, e)
    \/ \E i \in Slots : StreamComplete(i)
    \/ \E data \in {NotJson, NoMessages, NoSessionKey} : ImportSession(data)

SpecInputs == Init /\ [][NextInputs]_vars

\* the store beside the wall clock: sendMessage, its outcomes and
\* retryLastMessage at different times
MaxClock == 3

ClockAdvances ==
    /\ clock < MaxClock
    /\ clock' = clock + 1
    /\ UNCHANGED <<storeVars, streamVars, monVars, retryVars, titleVars,
                   notifyVars, requestVars>>

NextClock ==
    \/ CreateSession
    \/ \E id \in SessionIds : LoadSession(id)
    \/ \E content \in Accepted : SendMessage(content)
    \/ \E i \in Slots : Resume(i)
    \/ \E i \in Slots : SendSucceeds(i)
    \/ \E i \in Slots, e \in StreamErrors : SendFails(i, e)
    \/ RetryLastMessage
    \/ ClockAdvances

SpecClock == Init /\ [][NextClock]_vars

\* streamMessage with metadata events
NextMeta ==
    \/ CreateSession
    \/ \E content \in Accepted : StreamMessage(content)
    \/ \E i \in Slots : Resume(i)
    \/ \E i \in Slots, chunk \in {Hel, Lo} : StreamChunk(i, chunk)
    \/ \E i \in Slots, metadata \in StreamMetas : StreamMetadata(i, metadata)
    \/ \E i \in Slots, e \in StreamErrors : StreamError(i, e)
    \/ \E i \in Slots : StreamComplete(i)

SpecMeta == Init /\ [][NextMeta]_vars

(***************************************************************************)
(* A subscriber of the store.  An operation is the sequence of its set()   *)
(* calls, each applied to the state the one before left; set() notifies    *)
(* the subscriber of the new state when it differs from the old one.       *)
(***************************************************************************)
MaxMessages == 2    \* message ids addMessage is called with

\* the set() calls of createSession
createSessionCommits(st, id) ==
    <<[st EXCEPT !.isLoading = TRUE, !.error = NoError], createSession(st, id)>>

\* the set() calls of loadSession
loadSessionCommits(st, sessionId) ==
    IF sessionId = 0 THEN <<loadSession(st, sessionId)>>
    ELSE <<[st EXCEPT !.isLoading = TRUE, !.error = NoError],
           loadSession(st, sessionId)>>

\* the states among commits that differ from the state before them
Notified(st, commits) ==
    LET before(k) == IF k = 1 THEN st ELSE commits[k - 1]
        changed == {k \in 1..Len(commits) : commits[k] # before(k)}
        nth(n) == CHOOSE k \in changed : Cardinality({j \in changed : j < k}) = n - 1
    IN  [n \in 1..Cardinality(changed) |-> commits[nth(n)]]

\* an operation runs from its invocation to its return
Operate(commits) ==
    /\ Commit(commits[Len(commits)])
    /\ observed' = Notified(State, commits)
    /\ UNCHANGED <<calls, streamVars, monVars, retryVars, titleVars,
                   clockVars, requestVars>>

ObservedCreateSession ==
    /\ CanCreate
    /\ Operate(createSessionCommits(State, nextSid))
    /\ nextSid' = nextSid + 1

ObservedLoadSession(sessionId) ==
    /\ Operate(loadSessionCommits(State, sessionId))
    /\ UNCHANGED nextSid

ObservedAddMessage(message) ==
    /\ \A s \in {sessions[k] : k \in 1..Len(sessions)} :
           \A n \in 1..Len(s.messages) : s.messages[n].id # message.id
    /\ Operate(<<addMessage(State, message)>>)
    /\ UNCHANGED nextSid

ObservedUpdateMessage(messageId, updates) ==
    /\ Operate(<<updateMessage(State, messageId, updates)>>)
    /\ UNCHANGED nextSid

ObservedDeleteMessage(messageId) ==
    /\ Operate(<<deleteMessage(State, messageId)>>)
    /\ UNCHANGED nextSid

ObservedDeleteSession(sessionId) ==
    /\ Operate(<<deleteSession(State, sessionId)>>)
    /\ UNCHANGED nextSid

ObservedImportSession(data) ==
    /\ CanCreate
    /\ Operate(<<importSession(State, data, nextSid)>>)
    /\ nextSid' = IF error' = NoError THEN nextSid + 1 ELSE nextSid

ObservedClearAllSessions ==
    /\ Operate(<<clearAllSessions(State)>>)
    /\ UNCHANGED nextSid

NextNotify ==
    \/ ObservedCreateSession
    \/ \E id \in SessionIds \cup {0, AbsentId} : ObservedLoadSession(id)
    \/ \E id \in 1..MaxMessages : ObservedAddMessage(Message(id, "user", Hel, FALSE))
    \/ \E id \in 1..MaxMessages : ObservedUpdateMessage(id, [content |-> Lo])
    \/ \E id \in 1..MaxMessages : ObservedDeleteMessage(id)
    \/ \E id \in SessionIds \cup {AbsentId} : ObservedDeleteSession(id)
    \/ \E data \in {exportSession(State)[i] : i \in 1..Len(exportSession(State))}
                      \cup {NotJson} :
           ObservedImportSession(data)
    \/ ObservedClearAllSessions

SpecNotify == Init /\ [][NextNotify]_vars


(***************************************************************************)
(* Properties of the store.                                                *)
(***************************************************************************)
AllSessions == {sessions[k] : k \in 1..Len(sessions)} \cup {currentSession[k] : k \in 1..Len(currentSession)}
Indices(messages, Test(_)) == {k \in 1..Len(messages) : Test(messages[k])}
IsAssistant(m) == m.role = "assistant"
IsLoadingMessage(m) == m.isLoading
Stored(sid) == {s \in {sessions[k] : k \in 1..Len(sessions)} : s.id = sid}
WithId(messages, id) == {messages[k] : k \in {j \in 1..Len(messages) : messages[j].id = id}}
ValidContent(content) == Trim(content) # <<>> /\ Length(content) <= MaxMessageLength

\* C1: every session holds at most one message with isLoading = true, and that
\* message is the last assistant message of the session.
C1_OneLoadingPerSession ==
    \A s \in AllSessions :
        LET loading == Indices(s.messages, IsLoadingMessage)
            assistants == Indices(s.messages, IsAssistant)
        IN  /\ Cardinality(loading) <= 1
            /\ \A k \in loading : k \in assistants /\ \A j \in assistants : j <= k

\* messages ends with the user message of content (trimmed) followed by the
\* empty loading placeholder, after what before held
EndsWithPair(messages, before, content) ==
    /\ Len(messages) = Len(before) + 2
    /\ SubSeq(messages, 1, Len(before)) = before
    /\ LET user == messages[Len(before) + 1]
           placeholder == messages[Len(before) + 2]
       IN  /\ user.role = "user" /\ user.content = Trim(content) /\ ~user.isLoading
           /\ placeholder.role = "assistant" /\ placeholder.content = <<>>
           /\ placeholder.isLoading

\* the step appended the pair to the current session and to nothing else, and
\* call i has issued its request
AppendedPair(i, content) ==
    /\ currentSession # <<>> /\ currentSession' # <<>>
    /\ currentSession'[1].id = currentSession[1].id
    /\ EndsWithPair(currentSession'[1].messages, currentSession[1].messages, content)
    /\ Len(sessions') = Len(sessions)
    /\ \A k \in 1..Len(sessions) :
           IF sessions[k].id = currentSession[1].id
           THEN sessions'[k].messages = currentSession'[1].messages
           ELSE sessions'[k] = sessions[k]
    /\ calls'[i].pc = "inflight"

MessageIds(s) == [k \in 1..Len(s.messages) |-> s.messages[k].id]
SameMessageIds ==
    /\ Len(sessions') = Len(sessions)
    /\ \A k \in 1..Len(sessions) : MessageIds(sessions'[k]) = MessageIds(sessions[k])
    /\ Len(currentSession') = Len(currentSession)
    /\ \A k \in 1..Len(currentSession) :
           MessageIds(currentSession'[k]) = MessageIds(currentSession[k])

\* C2 as claimed: every sendMessage call with valid content appends the user
\* message and the placeholder to the current session before it issues its
\* request, also the call that resumes after creating its session.
C2_EverySendAppendsPair ==
    [][/\ \A content \in Contents :
              ValidContent(content) /\ SendMessage(content) /\ currentSession # <<>>
              => AppendedPair(FreeSlot, content)
       /\ \A i \in Slots :
              Resume(i) /\ calls[i].kind = "send"
              => AppendedPair(i, calls[i].content)]_vars

\* C2, amended: a sendMessage call with valid content that holds a current
\* session when it reaches the two addMessage calls appends exactly the user
\* message (trimmed) and the placeholder, in the step that issues the request;
\* the step that applies the outcome of the request appends nothing; and a
\* call that finds no current session after await createSession() sets the
\* error and appends nothing.
C2_SendAppendsPairOnce ==
    [][/\ \A content \in Contents :
              ValidContent(content) /\ SendMessage(content) /\ currentSession # <<>>
              => AppendedPair(FreeSlot, content)
       /\ \A content \in Contents :
              ValidContent(content) /\ SendMessage(content) /\ currentSession = <<>>
              => /\ calls'[FreeSlot].pc = "creating"
                 /\ currentSession' # <<>> /\ currentSession'[1].messages = <<>>
       /\ \A i \in Slots :
              Resume(i) /\ calls[i].kind = "send" /\ currentSession # <<>>
              => AppendedPair(i, calls[i].content)
       /\ \A i \in Slots :
              Resume(i) /\ calls[i].kind = "send" /\ currentSession = <<>>
              => /\ error' = "Failed to create session"
                 /\ calls'[i].pc = "done"
                 /\ sessions' = sessions /\ currentSession' = currentSession
       /\ \A i \in Slots, e \in StreamErrors :
              SendSucceeds(i) \/ SendFails(i, e)
              => SameMessageIds /\ calls'[i].pc = "done"]_vars

\* a sendMessage call is awaiting its response and the current session ends
\* with its user message and its placeholder
C2_Witness ==
    \E i \in Slots :
        /\ calls[i].kind = "send" /\ calls[i].origin = "send" /\ calls[i].pc = "inflight"
        /\ currentSession # <<>>
        /\ Len(currentSession[1].messages) >= 2
        /\ LET messages == currentSession[1].messages
           IN  /\ EndsWithPair(messages, SubSeq(messages, 1, Len(messages) - 2),
                               calls[i].content)
               /\ messages[Len(messages)].id = calls[i].asstId
               /\ messages[Len(messages) - 1].content # calls[i].content

InvalidContent(content) == Trim(content) = <<>> \/ Length(content) > MaxMessageLength

\* C3: sendMessage and streamMessage with empty, whitespace-only or too long
\* content set the error and change nothing else; no call is started.
C3_RejectedSetsOnlyError ==
    [][\A content \in Contents :
           InvalidContent(content) /\ (SendMessage(content) \/ StreamMessage(content))
           => /\ error' # NoError
              /\ sessions' = sessions
              /\ currentSession' = currentSession
              /\ isLoading' = isLoading
              /\ calls' = calls
              /\ nextSid' = nextSid]_vars

\* a too long message was rejected in a session that holds messages
C3_Witness ==
    /\ error = "Message too long (max 10000 characters)"
    /\ currentSession # <<>>
    /\ currentSession[1].messages # <<>>


\* C4: when the response of a sendMessage call arrives after the current
\* session changed, the placeholder of the call, as stored in sessions, has the
\* response text and isLoading = false.
C4_ResultAppliedWhenNotDisplayed ==
    [][\A i \in Slots :
           /\ SendSucceeds(i)
           /\ currentSession = <<>> \/ currentSession[1].id # calls[i].sid
           => \A k \in 1..Len(sessions') :
                  sessions'[k].id = calls[i].sid
                  => \A m \in WithId(sessions'[k].messages, calls[i].asstId) :
                         m.content = ResponseText /\ ~m.isLoading]_vars

\* C5: isLoading is true while a sendMessage call awaits its response.
C5_LoadingWhileInFlight ==
    (\E i \in Slots : calls[i].kind = "send" /\ calls[i].pc = "inflight") => isLoading

\* C6: retryLastMessage on [user "a", assistant (error)]: when the re-send has
\* finished and the session holds no message of another call, it holds
\* exactly one user message and one assistant message.
C6_RetryLeavesOnePair ==
    [][\A i \in Slots, e \in StreamErrors :
           /\ SendSucceeds(i) \/ SendFails(i, e)
           /\ calls[i].origin = "retry" /\ calls[i].pair # 0
           /\ currentSession # <<>> /\ currentSession[1].id = calls[i].sid
           /\ \A k \in 1..Len(currentSession[1].messages) :
                  currentSession[1].messages[k].id
                      \in {calls[i].pair, generateId(i, 1), generateId(i, 2)}
           => /\ Cardinality(Indices(currentSession'[1].messages, IsUser)) = 1
              /\ Cardinality(Indices(currentSession'[1].messages, IsAssistant)) = 1]_vars

\* the positions in messages of the message with this id
Positions(messages, id) == {k \in 1..Len(messages) : messages[k].id = id}

\* call i is a sendMessage call awaiting its response, and the session it
\* sent in is the current one
InFlightInCurrent(i) ==
    /\ calls[i].kind = "send" /\ calls[i].pc = "inflight"
    /\ currentSession # <<>> /\ currentSession[1].id = calls[i].sid

\* the step applied the failure e of call i to its placeholder
FailureApplied(i, e) ==
    /\ error' = e
    /\ currentSession' # <<>>
    /\ LET messages == currentSession'[1].messages
       IN  /\ \E u \in Positions(messages, generateId(i, 1)) :
                  \E a \in Positions(messages, calls[i].asstId) :
                      /\ u < a
                      /\ messages[u].role = "user"
                      /\ messages[a].content = SendApology
                      /\ ~messages[a].isLoading
                      /\ messages[a].error = e
           /\ MessageIds(currentSession'[1]) = MessageIds(currentSession[1])

\* C15: when the request of sendMessage fails and the session is still the
\* current one, the placeholder holds the apology, isLoading = false and the
\* error, the global error is that error, and the user message and the
\* placeholder are both still in the session, in that order.
C15_FailureMarksPlaceholder ==
    [][\A i \in Slots, e \in StreamErrors :
           SendFails(i, e) /\ InFlightInCurrent(i) => FailureApplied(i, e)]_vars

\* C15, amended: as C15 when the placeholder is still in the session;
\* when retryLastMessage deleted the placeholder while it was loading, the
\* failure sets the global error and changes no message.
C15_FailureMarksKeptPlaceholder ==
    [][\A i \in Slots, e \in StreamErrors :
           SendFails(i, e) /\ InFlightInCurrent(i)
           => IF Positions(currentSession[1].messages, calls[i].asstId) # {}
              THEN FailureApplied(i, e)
              ELSE /\ error' = e
                   /\ currentSession'[1].messages = currentSession[1].messages]_vars

\* the request of a sendMessage call failed: the session holds the user
\* message and the placeholder with the apology and the error
C15_Witness ==
    /\ error = NetworkErrorMessage
    /\ \E i \in Slots : calls[i].pc = "done"
    /\ currentSession # <<>>
    /\ Len(currentSession[1].messages) = 2
    /\ currentSession[1].messages[1].role = "user"
    /\ currentSession[1].messages[2].content = SendApology
    /\ currentSession[1].messages[2].error = NetworkErrorMessage
    /\ ~currentSession[1].messages[2].isLoading

\* the step applied the response to the placeholder of call i
ResponseApplied(i) ==
    /\ currentSession' # <<>>
    /\ LET messages == currentSession'[1].messages
       IN  \E a \in Positions(messages, calls[i].asstId) :
               /\ messages[a].content = ChatResponse.response
               /\ ~messages[a].isLoading
               /\ messages[a].error = NoError
               /\ Len(messages[a].metadata) = 1
               /\ LET metadata == messages[a].metadata[1]
                      sources == ChatResponse.context_sources
                  IN  /\ metadata.confidence_score = ChatResponse.confidence_score
                      /\ metadata.risk_assessment = ChatResponse.risk_assessment
                      /\ metadata.processing_time = ChatResponse.processing_time
                      /\ DOMAIN metadata.context_sources = DOMAIN sources
                      /\ \A k \in DOMAIN sources :
                             /\ DOMAIN metadata.context_sources[k]
                                    = {"id", "title", "relevance_score"}
                             /\ metadata.context_sources[k].id = sources[k].id
                             /\ metadata.context_sources[k].title = sources[k].title
                             /\ metadata.context_sources[k].relevance_score
                                    = sources[k].relevance_score

\* C16: when the request of sendMessage succeeds and the session is still
\* the current one, the placeholder holds the response text, isLoading =
\* false, the metadata of the response and no error, and the global error is
\* cleared.
C16_SuccessFillsPlaceholder ==
    [][\A i \in Slots :
           SendSucceeds(i) /\ InFlightInCurrent(i)
           => ResponseApplied(i) /\ error' = NoError]_vars

\* C16, amended: as C16 when the placeholder is still in the session, the
\* global error being left as it was; when retryLastMessage deleted the
\* placeholder while it was loading, the response changes no message.
C16_SuccessFillsKeptPlaceholder ==
    [][\A i \in Slots :
           SendSucceeds(i) /\ InFlightInCurrent(i)
           => /\ error' = error
              /\ IF Positions(currentSession[1].messages, calls[i].asstId) # {}
                 THEN ResponseApplied(i)
                 ELSE currentSession'[1].messages = currentSession[1].messages]_vars

\* the request of a sendMessage call succeeded: the session holds the user
\* message and the placeholder with the response and its metadata
C16_Witness ==
    /\ error = NoError
    /\ \E i \in Slots : calls[i].pc = "done"
    /\ currentSession # <<>>
    /\ Len(currentSession[1].messages) = 2
    /\ currentSession[1].messages[1].role = "user"
    /\ currentSession[1].messages[2].content = ResponseText
    /\ currentSession[1].messages[2].metadata = ResponseMeta
    /\ ~currentSession[1].messages[2].isLoading

\* the user message of call i is the first user message of the current session
FirstUserMessage(i) ==
    LET messages == currentSession[1].messages
        users == Indices(messages, IsUser)
    IN  /\ users # {}
        /\ \A k \in users : (\A j \in users : k <= j) => messages[k].id = generateId(i, 1)

\* C17: when sendMessage returns, having sent the first user message of the
\* session, the title derived from that message is the title of the current
\* session and of its entry in sessions.
C17_TitleSetOnReturn ==
    [][\A i \in Slots, e \in StreamErrors :
           /\ SendSucceeds(i) \/ SendFails(i, e)
           /\ InFlightInCurrent(i) /\ FirstUserMessage(i)
           => /\ currentSession' # <<>>
              /\ currentSession'[1].title = generateSessionTitle(calls[i].content)
              /\ \A k \in 1..Len(sessions') :
                     sessions'[k].id = calls[i].sid
                     => sessions'[k].title = generateSessionTitle(calls[i].content)]_vars

RECURSIVE Concat(_)
Concat(chunks) == IF chunks = <<>> THEN <<>> ELSE Cat(Head(chunks), Concat(Tail(chunks)))

\* C19: a terminal error event of streamMessage leaves the placeholder, as
\* stored in sessions, with the text accumulated so far (the fallback
\* apology when there is none), the error and isLoading = false, and sets
\* the global error and clears the global isLoading.
C19_StreamErrorMarksPlaceholder ==
    [][\A i \in Slots, e \in StreamErrors :
           StreamError(i, e)
           => /\ error' = e /\ ~isLoading'
              /\ \A k \in 1..Len(sessions') :
                     sessions'[k].id = calls[i].sid
                     => \A m \in WithId(sessions'[k].messages, calls[i].asstId) :
                            /\ m.content = IF calls[i].got # <<>>
                                           THEN Concat(calls[i].got) ELSE StreamApology
                            /\ m.error = e
                            /\ ~m.isLoading]_vars

\* no call other than i is between its entry and its return
NoOtherInFlight(i) ==
    \A j \in Slots \ {i} : calls[j].pc \in {"idle", "done"}

\* C20: the step in which the transport call of sendMessage returns, or the
\* stream of streamMessage delivers its terminal event, ends the call, and
\* leaves the global isLoading false when no other call is in flight.
C20_ReturnsWithLoadingCleared ==
    [][\A i \in Slots, e \in StreamErrors :
           SendSucceeds(i) \/ SendFails(i, e) \/ StreamError(i, e) \/ StreamComplete(i)
           => /\ calls'[i].pc = "done"
              /\ NoOtherInFlight(i) => ~isLoading']_vars

\* a stream completed after both chunks and no call is in flight
C20_Witness ==
    /\ ~isLoading
    /\ \A j \in Slots : calls[j].pc \in {"idle", "done"}
    /\ currentSession # <<>>
    /\ Len(currentSession[1].messages) = 2
    /\ currentSession[1].messages[2].content = Concat(StreamChunks)
    /\ currentSession[1].messages[2].error = NoError
    /\ ~currentSession[1].messages[2].isLoading

\* C8: while streamMessage has received chunks and no terminal event, its
\* placeholder, as stored in sessions, holds their concatenation in arrival
\* order and isLoading = true.
C8_PlaceholderHoldsChunks ==
    \A i \in Slots :
        calls[i].pc = "streaming" /\ calls[i].got # <<>>
        => \A s \in Stored(calls[i].sid) :
               \A m \in WithId(s.messages, calls[i].asstId) :
                   m.content = Concat(calls[i].got) /\ m.isLoading

\* the store after the step
StateNext ==
    [currentSession |-> currentSession', sessions |-> sessions',
     isLoading |-> isLoading', error |-> error', isConnected |-> isConnected']

\* C21: deleteSession(id) applied to the state a deleteSession(id) left
\* changes nothing, for the id of a stored session, of the current session
\* and of no session; and deleteSession of an id no session has changes
\* nothing.
C21_DeleteSessionIdempotent ==
    [][\A id \in SessionIds \cup {AbsentId} :
           DeleteSession(id)
           => /\ deleteSession(StateNext, id) = StateNext
              /\ id \notin SessionIds => StateNext = State]_vars

\* two sessions were created, the current one was deleted, the other is kept
C21_Witness ==
    /\ nextSid = FirstSid + 2
    /\ Len(sessions) = 1
    /\ sessions[1].id = FirstSid
    /\ currentSession = <<>>

\* C22: importSession of what exportSession returned for the current
\* session succeeds; the session it makes current has the messages of the
\* exported one, in the same order, and another id; it is put in front of
\* sessions, which keep the exported session.
C22_ExportImportRoundTrip ==
    [][\A k \in 1..Len(exportSession(State)) :
           ImportSession(exportSession(State)[k])
           => /\ error' = NoError
              /\ currentSession' # <<>>
              /\ currentSession'[1].messages = currentSession[1].messages
              /\ currentSession'[1].id # currentSession[1].id
              /\ sessions' = currentSession' \o sessions
              /\ \E j \in 1..Len(sessions') :
                     /\ sessions'[j].id = currentSession[1].id
                     /\ sessions'[j].messages = currentSession[1].messages]_vars

\* a session with an answered exchange was exported and imported
C22_Witness ==
    /\ Len(sessions) = 2
    /\ currentSession = <<sessions[1]>>
    /\ sessions[1].id # sessions[2].id
    /\ sessions[1].messages = sessions[2].messages
    /\ sessions[1].title = sessions[2].title
    /\ Len(sessions[1].messages) = 2
    /\ sessions[1].messages[2].metadata = ResponseMeta

\* C23: loadSession of the id of a stored session clears the error and
\* makes that session current; of a non-empty id no session has, it is
\* rejected with 'Session not found', sets that as the store's error and
\* leaves currentSession and sessions as they are; of the empty id, it sets
\* the store's error and changes nothing else.
C23_LoadSessionCases ==
    [][\A id \in SessionIds \cup {0, AbsentId} :
           LoadSession(id)
           => /\ id \in SessionIds
                 => /\ error' = NoError
                    /\ loadSessionSettles(State, id) = "resolved"
                    /\ \E k \in 1..Len(sessions) :
                           sessions[k].id = id /\ currentSession' = <<sessions[k]>>
              /\ id # 0 /\ id \notin SessionIds
                 => /\ loadSessionSettles(State, id) = "Session not found"
                    /\ error' = "Session not found"
                    /\ currentSession' = currentSession
                    /\ sessions' = sessions
              /\ id = 0
                 => /\ error' # NoError
                    /\ [StateNext EXCEPT !.error = error] = State]_vars

\* a session is current and a load of an id no session has was refused
C23_Witness ==
    /\ error = "Session not found"
    /\ currentSession # <<>>
    /\ sessions # <<>>

\* C24: in every reachable state currentSession is null or sessions holds
\* an entry with its id, and every entry with its id has its messages (the
\* same messages in the same order, with the same content, isLoading, error
\* and metadata) and its title.
C24_CurrentAgreesWithSessions ==
    currentSession # <<>>
    => /\ \E k \in 1..Len(sessions) : sessions[k].id = currentSession[1].id
       /\ \A k \in 1..Len(sessions) :
              sessions[k].id = currentSession[1].id
              => /\ sessions[k].messages = currentSession[1].messages
                 /\ sessions[k].title = currentSession[1].title

\* the current session holds an answered exchange and a title, and is not
\* the first of the stored sessions
C24_Witness ==
    /\ Len(sessions) = 2
    /\ currentSession = <<sessions[2]>>
    /\ Len(currentSession[1].messages) = 2
    /\ currentSession[1].messages[2].content = ResponseText
    /\ currentSession[1].title # NoTitle

\* C25: sessions is ordered most recently touched first: a stored session
\* whose messages a step appends to or changes is the first element of
\* sessions after the step.
C25_TouchedSessionFirst ==
    [][\A k \in 1..Len(sessions') :
           (\E j \in 1..Len(sessions) :
                /\ sessions[j].id = sessions'[k].id
                /\ sessions[j].messages # sessions'[k].messages)
           => k = 1]_vars

\* C26: a step that changes the messages or the title of a stored session
\* leaves the session's updated_at, in sessions and in currentSession, at
\* the time of the step, which is not earlier than it was.
C26_UpdatedAtAdvances ==
    [][\A k \in 1..Len(sessions'), j \in 1..Len(sessions) :
           /\ sessions[j].id = sessions'[k].id
           /\ \/ sessions[j].messages # sessions'[k].messages
              \/ sessions[j].title # sessions'[k].title
           => /\ sessions'[k].updated_at = clock'
              /\ sessions'[k].updated_at >= sessions[j].updated_at
              /\ \A c \in 1..Len(currentSession') :
                     currentSession'[c].id = sessions'[k].id
                     => currentSession'[c].updated_at = clock']_vars

\* the messages of old that are in new are in the same order there, and the
\* messages of new that are not in old come after all that are
OrderKept(old, new) ==
    LET InOld(m) == \E x \in 1..Len(old) : old[x].id = m.id
        InNew(m) == \E x \in 1..Len(new) : new[x].id = m.id
        keptOld == SelectSeq(old, InNew)
        keptNew == SelectSeq(new, InOld)
    IN  /\ [k \in 1..Len(keptOld) |-> keptOld[k].id]
           = [k \in 1..Len(keptNew) |-> keptNew[k].id]
        /\ SubSeq(new, 1, Len(keptNew)) = keptNew

\* C27: no step reorders the messages of a session: the messages a session
\* has before and after the step keep their relative order, and the
\* messages the step adds come last; in sessions and in currentSession.
C27_MessagesKeepOrder ==
    [][/\ \A k \in 1..Len(sessions'), j \in 1..Len(sessions) :
              sessions[j].id = sessions'[k].id
              => OrderKept(sessions[j].messages, sessions'[k].messages)
       /\ \A c \in 1..Len(currentSession'), d \in 1..Len(currentSession) :
              currentSession[d].id = currentSession'[c].id
              => OrderKept(currentSession[d].messages,
                           currentSession'[c].messages)]_vars

\* a failed exchange was retried: the failed placeholder is gone, the first
\* user message is still first and the new pair follows it
C27_Witness ==
    /\ currentSession # <<>>
    /\ Len(currentSession[1].messages) = 3
    /\ currentSession[1].messages[1].role = "user"
    /\ currentSession[1].messages[2].role = "user"
    /\ currentSession[1].messages[3].role = "assistant"
    /\ currentSession[1].messages[1].id < currentSession[1].messages[2].id

\* C28: a restart keeps sessions as they were in the last state before it
\* and leaves currentSession null, error null, isLoading false and
\* isConnected true, whatever they were.
C28_OnlySessionsPersisted ==
    [][Restart
       => /\ sessions' = sessions
          /\ currentSession' = <<>>
          /\ error' = NoError
          /\ ~isLoading'
          /\ isConnected']_vars

\* the process restarted while a request was in flight: its session is
\* stored, with the placeholder loading, and no session is current
C28_Witness ==
    /\ currentSession = <<>>
    /\ ~isLoading /\ error = NoError /\ isConnected
    /\ \E k \in 1..Len(sessions) :
           \E n \in 1..Len(sessions[k].messages) : sessions[k].messages[n].isLoading
    /\ \A i \in Slots : calls[i].pc \in {"idle", "done"}

\* C31: between the invocation and the return of createSession,
\* loadSession, addMessage, updateMessage, deleteMessage, deleteSession,
\* importSession and clearAllSessions a subscriber is notified of no state
\* other than the state before and the state after the operation.
C31_SingleCommit ==
    [][\A k \in 1..Len(observed') :
           observed'[k] = State \/ observed'[k] = StateNext]_vars

\* C32: a metadata event of streamMessage leaves the placeholder, as stored
\* in sessions, with the metadata of the event in place of what it had and
\* with everything else as it was, and leaves the global isLoading and
\* error as they were.
C32_MetadataReplaced ==
    [][\A i \in Slots, metadata \in StreamMetas :
           StreamMetadata(i, metadata)
           => /\ isLoading' = isLoading
              /\ error' = error
              /\ \A k \in 1..Len(sessions) :
                     sessions[k].id = calls[i].sid
                     => \A n \in 1..Len(sessions[k].messages) :
                            sessions[k].messages[n].id = calls[i].asstId
                            => sessions'[k].messages[n]
                               = [sessions[k].messages[n] EXCEPT
                                      !.metadata = metadata]]_vars

\* C35: no two messages of the stored sessions, in one session or in two,
\* have the same id.
C35_MessageIdsUnique ==
    \A k, j \in 1..Len(sessions) :
        \A n \in 1..Len(sessions[k].messages), m \in 1..Len(sessions[j].messages) :
            sessions[k].messages[n].id = sessions[j].messages[m].id
            => k = j /\ n = m

\* C36: the step in which the request of a sendMessage call returns leaves
\* the title of every stored session other than the one the call appended
\* its messages to as it was.
C36_TitleOfOtherSessionsKept ==
    [][\A i \in Slots, e \in StreamErrors :
           SendSucceeds(i) \/ SendFails(i, e)
           => \A k \in 1..Len(sessions'), j \in 1..Len(sessions) :
                  /\ sessions[j].id = sessions'[k].id
                  /\ sessions[j].id # calls[i].sid
                  => sessions'[k].title = sessions[j].title]_vars

\* C37: after a restart no message of any session has isLoading = true.
C37_NoLoadingAfterRestart ==
    [][Restart
       => \A k \in 1..Len(sessions') :
              \A n \in 1..Len(sessions'[k].messages) :
                  ~sessions'[k].messages[n].isLoading]_vars

Statuses == {200, 204, 400, 404, 500, 503}
ContentTypes == {"application/json", "text/event-stream", "none"}
\* a JSON object without error, { error: { message, code } }, {}, and a
\* text that is no JSON
Bodies == {"data", "error", "empty", "malformed"}
\* the values fetch rejects with: the TypeError of an unreachable server as
\* worded by the engines ('Failed to fetch', 'Load failed'), an AbortError,
\* and a value that is no Error
Thrown ==
    {[class |-> "TypeError", message |-> "Failed to fetch"],
     [class |-> "TypeError", message |-> "Load failed"],
     [class |-> "Error", message |-> "The operation was aborted"],
     [class |-> "none", message |-> ""]}

FetchResults ==
    {[settles |-> "rejected", thrown |-> t] : t \in Thrown}
    \cup {[settles |-> "resolved", status |-> st, contentType |-> ct, body |-> b] :
              st \in Statuses, ct \in ContentTypes, b \in Bodies}

NoCode == "undefined"
APIError(status, code) == [settles |-> "rejected", status |-> status, code |-> code]

\* response.ok
Ok(response) == response.status \in 200..299

\* error.message.includes('fetch')
IncludesFetch(message) == message = "Failed to fetch"

\* the catch block of request, for a thrown value that is no APIError
requestCatch(thrown) ==
    IF thrown.class = "TypeError" /\ IncludesFetch(thrown.message)
    THEN APIError(0, "NETWORK_ERROR")
    ELSE APIError(500, "UNKNOWN_ERROR")

\* how request settles
request(fetched) ==
    IF fetched.settles = "rejected" THEN requestCatch(fetched.thrown)
    ELSE IF fetched.contentType # "application/json"
    THEN IF Ok(fetched) THEN [settles |-> "resolved"]
         ELSE APIError(fetched.status, NoCode)
    \* await response.json() throws a SyntaxError
    ELSE IF fetched.body = "malformed"
    THEN requestCatch([class |-> "SyntaxError", message |-> "Unexpected token"])
    ELSE IF ~Ok(fetched)
    THEN APIError(fetched.status,
                  IF fetched.body = "error" THEN "E_SERVER" ELSE NoCode)
    ELSE [settles |-> "resolved"]

RequestSettles ==
    /\ fetchResult # <<>> /\ requestResult = <<>>
    /\ requestResult' = <<request(fetchResult[1])>>
    /\ UNCHANGED <<fetchResult, storeVars, streamVars, monVars, retryVars, titleVars,
                   clockVars, notifyVars>>

RequestInit ==
    /\ StoreInit /\ StreamOff /\ MonOff /\ RetryOff /\ TitleOff /\ ClockOff /\ NotifyOff
    /\ fetchResult \in {<<f>> : f \in FetchResults} /\ requestResult = <<>>

NextRequest == RequestSettles

SpecRequest == RequestInit /\ [][NextRequest]_vars

\* the kind a failure is reported as, "none" when it is none of the four
Kind(failure) ==
    IF failure.code = "NETWORK_ERROR" THEN "NetworkError"
    ELSE IF failure.code = "PARSE_ERROR" THEN "ParseError"
    ELSE IF failure.code = "UNKNOWN_ERROR" THEN "UnknownError"
    ELSE IF failure.code # NoCode /\ failure.status \notin 200..299 THEN "ServerError"
    ELSE "none"

\* C34: a request that fails is reported as a NetworkError, a ServerError
\* with status and code, a ParseError or an UnknownError; a response with a
\* success status whose JSON body cannot be parsed is reported as a
\* ParseError; and a failure carries status 0 only when fetch was rejected.
C34_FourKinds ==
    \A r \in 1..Len(requestResult) :
        LET fetched == fetchResult[1]
            result == requestResult[r]
        IN  result.settles = "rejected"
            => /\ Kind(result) # "none"
               /\ /\ fetched.settles = "resolved"
                  /\ Ok(fetched)
                  /\ fetched.contentType = "application/json"
                  /\ fetched.body = "malformed"
                  => Kind(result) = "ParseError"
               /\ result.status = 0 => fetched.settles = "rejected"

(***************************************************************************)
(* ApiClient.streamChatMessage.  The response text is a sequence of        *)
(* characters, delivered by reader.read() in pieces.                       *)
(***************************************************************************)
MaxReads == 2       \* pieces the response text is delivered in

DataPrefix == <<"d", "a", "t", "a", ":", " ">>
DoneSentinel == <<"[", "D", "O", "N", "E", "]">>
\* {"type":"chunk","content":"Hel"}
ChunkHelJson ==
    <<"{", "\"", "t", "y", "p", "e", "\"", ":", "\"", "c", "h", "u", "n",
      "k", "\"", ",", "\"", "c", "o", "n", "t", "e", "n", "t", "\"", ":",
      "\"", "H", "e", "l", "\"", "}">>
\* {"type":"chunk","content":"lo"}
ChunkLoJson ==
    <<"{", "\"", "t", "y", "p", "e", "\"", ":", "\"", "c", "h", "u", "n",
      "k", "\"", ",", "\"", "c", "o", "n", "t", "e", "n", "t", "\"", ":",
      "\"", "l", "o", "\"", "}">>
\* {"type":"chunk","content":""}
EmptyChunkJson ==
    <<"{", "\"", "t", "y", "p", "e", "\"", ":", "\"", "c", "h", "u", "n",
      "k", "\"", ",", "\"", "c", "o", "n", "t", "e", "n", "t", "\"", ":",
      "\"", "\"", "}">>
\* {"type":"metadata","metadata":{"n":1}}
MetadataJson ==
    <<"{", "\"", "t", "y", "p", "e", "\"", ":", "\"", "m", "e", "t", "a",
      "d", "a", "t", "a", "\"", ",", "\"", "m", "e", "t", "a", "d", "a", "t",
      "a", "\"", ":", "{", "\"", "n", "\"", ":", "1", "}", "}">>
\* {"type":"error","error":"boom"}
ErrorJson ==
    <<"{", "\"", "t", "y", "p", "e", "\"", ":", "\"", "e", "r", "r", "o",
      "r", "\"", ",", "\"", "e", "r", "r", "o", "r", "\"", ":", "\"", "b",
      "o", "o", "m", "\"", "}">>
\* {"type":"error"}
BareErrorJson ==
    <<"{", "\"", "t", "y", "p", "e", "\"", ":", "\"", "e", "r", "r", "o",
      "r", "\"", "}">>
\* {"type":"chunk"
MalformedJson ==
    <<"{", "\"", "t", "y", "p", "e", "\"", ":", "\"", "c", "h", "u", "n",
      "k", "\"">>

Parsed(type, content, metadata, err) ==
    [ok |-> TRUE, type |-> type, content |-> content, metadata |-> metadata,
     error |-> err]

\* JSON.parse on the payloads the responses below are made of; every other
\* text a line of theirs or a fragment of one can hold after 'data: ' is no
\* JSON (a cut object literal, a cut '[DONE]'), and JSON.parse throws
JSONparse(data) ==
    IF data = ChunkHelJson THEN Parsed("chunk", "Hel", "", "")
    ELSE IF data = ChunkLoJson THEN Parsed("chunk", "lo", "", "")
    ELSE IF data = EmptyChunkJson THEN Parsed("chunk", "", "", "")
    ELSE IF data = MetadataJson THEN Parsed("metadata", "", "{n:1}", "")
    ELSE IF data = ErrorJson THEN Parsed("error", "", "", "boom")
    ELSE IF data = BareErrorJson THEN Parsed("error", "", "", "")
    ELSE [ok |-> FALSE]

\* chunk.split('\n')
SplitLines(text) ==
    LET newlines == {i \in 1..Len(text) : text[i] = "\n"}
        starts == {0} \cup newlines
        ends == newlines \cup {Len(text) + 1}
        Nth(set, k) == CHOOSE b \in set : Cardinality({c \in set : c < b}) = k - 1
    IN  [k \in 1..(Cardinality(newlines) + 1) |->
            SubSeq(text, Nth(starts, k) + 1, Nth(ends, k) - 1)]

StartsWith(line, prefix) ==
    Len(line) >= Len(prefix) /\ SubSeq(line, 1, Len(prefix)) = prefix

Callback(name, arg) == [cb |-> name, arg |-> arg]

\* ProcessLines reading on after '[DONE]' and after an error record
RECURSIVE ProcessLinesPastTerminal(_, _)
ProcessLinesPastTerminal(lines, out) ==
    IF lines = <<>> THEN [fired |-> out, returned |-> FALSE]
    ELSE IF ~StartsWith(Head(lines), DataPrefix)
    THEN ProcessLinesPastTerminal(Tail(lines), out)
    ELSE LET data == SubSeq(Head(lines), Len(DataPrefix) + 1, Len(Head(lines)))
             parsed == JSONparse(data)
         IN  IF data = DoneSentinel
             THEN ProcessLinesPastTerminal(Tail(lines),
                      Append(out, Callback("onComplete", "")))
             ELSE IF ~parsed.ok THEN ProcessLinesPastTerminal(Tail(lines), out)
             ELSE IF parsed.type = "error"
                  THEN ProcessLinesPastTerminal(Tail(lines),
                           Append(out, Callback("onError",
                                      IF parsed.error # "" THEN parsed.error
                                      ELSE "Stream error occurred")))
             ELSE ProcessLinesPastTerminal(Tail(lines),
                      out
                      \o (IF parsed.type = "chunk" /\ parsed.content # ""
                          THEN <<Callback("onChunk", parsed.content)>> ELSE <<>>)
                      \o (IF parsed.type = "metadata" /\ parsed.metadata # ""
                          THEN <<Callback("onMetadata", parsed.metadata)>> ELSE <<>>))

\* ProcessLines reporting a record that is no JSON through onError
RECURSIVE ProcessLinesMalformedFatal(_, _)
ProcessLinesMalformedFatal(lines, out) ==
    IF lines = <<>> THEN [fired |-> out, returned |-> FALSE]
    ELSE IF ~StartsWith(Head(lines), DataPrefix)
    THEN ProcessLinesMalformedFatal(Tail(lines), out)
    ELSE LET data == SubSeq(Head(lines), Len(DataPrefix) + 1, Len(Head(lines)))
             parsed == JSONparse(data)
         IN  IF data = DoneSentinel
             THEN [fired |-> Append(out, Callback("onComplete", "")), returned |-> TRUE]
             ELSE IF ~parsed.ok
                  THEN [fired |-> Append(out, Callback("onError", "Stream error occurred")),
                        returned |-> TRUE]
             ELSE IF parsed.type = "error"
                  THEN [fired |-> Append(out, Callback("onError",
                                      IF parsed.error # "" THEN parsed.error
                                      ELSE "Stream error occurred")),
                        returned |-> TRUE]
             ELSE ProcessLinesMalformedFatal(Tail(lines),
                      out
                      \o (IF parsed.type = "chunk" /\ parsed.content # ""
                          THEN <<Callback("onChunk", parsed.content)>> ELSE <<>>)
                      \o (IF parsed.type = "metadata" /\ parsed.metadata # ""
                          THEN <<Callback("onMetadata", parsed.metadata)>> ELSE <<>>))

\* the body of for (const line of lines): the callbacks invoked, and whether
\* the function returned from inside the loop
RECURSIVE ProcessLines(_, _)
ProcessLines(lines, out) ==
    IF lines = <<>> THEN [fired |-> out, returned |-> FALSE]
    ELSE IF ~StartsWith(Head(lines), DataPrefix) THEN ProcessLines(Tail(lines), out)
    ELSE LET data == SubSeq(Head(lines), Len(DataPrefix) + 1, Len(Head(lines)))
             parsed == JSONparse(data)
         IN  IF data = DoneSentinel
             THEN [fired |-> Append(out, Callback("onComplete", "")), returned |-> TRUE]
             ELSE IF ~parsed.ok THEN ProcessLines(Tail(lines), out)
             ELSE IF parsed.type = "error"
                  THEN [fired |-> Append(out, Callback("onError",
                                      IF parsed.error # "" THEN parsed.error
                                      ELSE "Stream error occurred")),
                        returned |-> TRUE]
             ELSE ProcessLines(Tail(lines),
                      out
                      \o (IF parsed.type = "chunk" /\ parsed.content # ""
                          THEN <<Callback("onChunk", parsed.content)>> ELSE <<>>)
                      \o (IF parsed.type = "metadata" /\ parsed.metadata # ""
                          THEN <<Callback("onMetadata", parsed.metadata)>> ELSE <<>>))

Data(value) == [kind |-> "data", value |-> value]
EndOfStream == [kind |-> "done", value |-> <<>>]
ReadFailure == [kind |-> "fail", value |-> <<>>]

\* await this.request(...), and the check of response.body
Request(outcome, stream) ==
    /\ spc = "request"
    /\ IF outcome = "rejected"
       THEN /\ fired' = Append(fired, Callback("onError", NetworkErrorMessage))
            /\ spc' = "returned"
            /\ UNCHANGED reads
       ELSE IF outcome = "no body"
       THEN /\ fired' = Append(fired, Callback("onError", "No response body received"))
            /\ spc' = "returned"
            /\ UNCHANGED reads
       ELSE /\ reads' = stream
            /\ spc' = "reading"
            /\ UNCHANGED fired
    /\ UNCHANGED <<consumed, storeVars, monVars, retryVars, titleVars, outsideVars>>

\* one turn of while (true): await reader.read() and what follows it
Read ==
    /\ spc = "reading"
    /\ consumed < Len(reads)
    /\ consumed' = consumed + 1
    /\ LET next == reads[consumed + 1]
           done == ProcessLines(SplitLines(next.value), fired)
       IN  IF next.kind = "done"
           THEN /\ fired' = Append(fired, Callback("onComplete", ""))
                /\ spc' = "returned"
           ELSE IF next.kind = "fail"
           THEN /\ fired' = Append(fired, Callback("onError", "read failed"))
                /\ spc' = "returned"
           ELSE /\ fired' = done.fired
                /\ spc' = IF done.returned THEN "returned" ELSE "reading"
    /\ UNCHANGED <<reads, storeVars, monVars, retryVars, titleVars, outsideVars>>


Line(payload) == DataPrefix \o payload \o <<"\n">>

\* the response texts
HelloDone == Line(ChunkHelJson) \o Line(ChunkLoJson) \o Line(DoneSentinel)
ErrorMidway == Line(MetadataJson) \o Line(ErrorJson) \o Line(ChunkLoJson)
Unterminated ==
    Line(ChunkHelJson) \o <<"\n">> \o Line(MalformedJson) \o Line(EmptyChunkJson)
    \o Line(ChunkLoJson)
BareError == Line(BareErrorJson)
Texts == {HelloDone, ErrorMidway, Unterminated, BareError}

\* the sets of at most k places to cut a text of n characters
RECURSIVE CutSets(_, _)
CutSets(n, k) ==
    IF k = 0 THEN {{}}
    ELSE LET fewer == CutSets(n, k - 1)
         IN  fewer \cup {cuts \cup {p} : cuts \in fewer, p \in 1..(n - 1)}

RECURSIVE Pieces(_, _)
Pieces(text, cuts) ==
    IF cuts = {} THEN <<Data(text)>>
    ELSE LET p == CHOOSE c \in cuts : \A d \in cuts : c <= d
         IN  <<Data(SubSeq(text, 1, p))>>
             \o Pieces(SubSeq(text, p + 1, Len(text)), {c - p : c \in cuts \ {p}})

\* what reader.read() delivers: a text in at most MaxReads pieces, then the
\* end of the stream or a failure of the read
StreamsOf(text) ==
    {Pieces(text, cuts) \o <<end>> :
        cuts \in CutSets(Len(text), MaxReads - 1), end \in {EndOfStream, ReadFailure}}

StreamInit ==
    /\ StoreInit /\ MonOff /\ RetryOff /\ TitleOff /\ ClockOff /\ NotifyOff /\ RequestOff
    /\ spc = "request" /\ reads = <<>> /\ consumed = 0 /\ fired = <<>>

NextStream ==
    \/ \E outcome \in {"rejected", "no body"} : Request(outcome, <<>>)
    \/ \E text \in Texts : \E stream \in StreamsOf(text) : Request("ok", stream)
    \/ Read

SpecStream == StreamInit /\ [][NextStream]_vars

(***************************************************************************)
(* Properties of streamChatMessage.                                        *)
(***************************************************************************)
IsTerminal(callback) == callback.cb \in {"onError", "onComplete"}

\* C7: streamChatMessage invokes one of onError and onComplete exactly once
\* by the time it returns, none before, and no callback after it.
C7_ExactlyOneTerminal ==
    LET terminals == Indices(fired, IsTerminal)
    IN  /\ Cardinality(terminals) = IF spc = "returned" THEN 1 ELSE 0
        /\ \A k \in terminals : k = Len(fired)

\* the function returned at '[DONE]', after two chunks, with reads left
C7_Witness ==
    /\ spc = "returned"
    /\ Len(fired) = 3
    /\ fired[1].cb = "onChunk" /\ fired[2].cb = "onChunk"
    /\ fired[3].cb = "onComplete"
    /\ consumed < Len(reads)

\* a record whose payload is neither '[DONE]' nor JSON
IsMalformed(line) ==
    /\ StartsWith(line, DataPrefix)
    /\ SubSeq(line, Len(DataPrefix) + 1, Len(line)) # DoneSentinel
    /\ ~JSONparse(SubSeq(line, Len(DataPrefix) + 1, Len(line))).ok

\* lines.join('\n')
RECURSIVE JoinLines(_)
JoinLines(lines) ==
    IF lines = <<>> THEN <<>>
    ELSE IF Len(lines) = 1 THEN lines[1]
    ELSE lines[1] \o <<"\n">> \o JoinLines(Tail(lines))

\* the stream with the malformed records taken out of every read
WithoutMalformed(stream) ==
    LET WellFormed(line) == ~IsMalformed(line)
    IN  [k \in 1..Len(stream) |->
            IF stream[k].kind = "data"
            THEN Data(JoinLines(SelectSeq(SplitLines(stream[k].value), WellFormed)))
            ELSE stream[k]]

\* the callbacks of streamChatMessage reading the whole of stream
RECURSIVE FiredFor(_, _)
FiredFor(stream, out) ==
    IF stream = <<>> THEN out
    ELSE IF Head(stream).kind = "done" THEN Append(out, Callback("onComplete", ""))
    ELSE IF Head(stream).kind = "fail" THEN Append(out, Callback("onError", "read failed"))
    ELSE LET done == ProcessLines(SplitLines(Head(stream).value), out)
         IN  IF done.returned THEN done.fired ELSE FiredFor(Tail(stream), done.fired)

\* C33: when streamChatMessage has returned, the callbacks it invoked are
\* those of the stream with the malformed records removed, in the same
\* order: a malformed record invokes no callback and ends nothing.
C33_MalformedSkipped ==
    spc = "returned" /\ reads # <<>>
    => fired = FiredFor(WithoutMalformed(reads), <<>>)

\* the text with a malformed record, read to the end of the stream: the two
\* chunks around the record were delivered
C33_Witness ==
    /\ spc = "returned"
    /\ reads = <<Data(Unterminated), EndOfStream>>
    /\ fired = <<Callback("onChunk", "Hel"), Callback("onChunk", "lo"),
                 Callback("onComplete", "")>>

RECURSIVE Whole(_)
Whole(stream) ==
    IF stream = <<>> THEN <<>> ELSE Head(stream).value \o Whole(Tail(stream))

\* the callbacks of the text delivered in one read, then the end of the stream
InOneRead(text) ==
    LET done == ProcessLines(SplitLines(text), <<>>)
    IN  IF done.returned THEN done.fired
        ELSE Append(done.fired, Callback("onComplete", ""))

\* C9: however the response text is cut into reads, the callbacks are those
\* of the text delivered in one read.
C9_SplitInsensitive ==
    /\ spc = "returned"
    /\ reads # <<>>
    /\ reads[Len(reads)].kind = "done"
    => fired = InOneRead(Whole(reads))


(***************************************************************************)
(* useChat: checkConnection and the effect that runs it.  Time is in ms    *)
(* and advances by one reconnect delay at a time, so that a health check   *)
(* takes any whole number of reconnect delays, zero included.              *)
(***************************************************************************)
MaxTicks == 6       \* reconnect delays that time advances by

ReconnectDelay == 5000
HealthCheckInterval == 30000
Reconnecting == "Connection lost. Attempting to reconnect..."

\* checkConnection() up to await apiClient.healthCheck()
checkConnection == probes' = probes + 1

\* the effect: checkConnection(), then setInterval(checkConnection, 30000)
Mount ==
    /\ mounted = "no"
    /\ mounted' = "mounted"
    /\ checkConnection
    /\ interval' = <<now + HealthCheckInterval>>
    /\ UNCHANGED <<now, timeouts, reconnectTimeoutRef, nextTimer, storeVars, streamVars, retryVars, titleVars, outsideVars>>

\* healthCheck resolved, the error left as it is
ProbeSucceedsKeepsError ==
    /\ probes > 0
    /\ probes' = probes - 1
    /\ Commit(setConnected(State, TRUE))
    /\ UNCHANGED <<now, mounted, timeouts, reconnectTimeoutRef, interval, nextTimer,
                   calls, nextSid, streamVars, retryVars, titleVars, outsideVars>>

\* healthCheck resolved, the connection flag left as it is
ProbeSucceedsKeepsConnected ==
    /\ probes > 0
    /\ probes' = probes - 1
    /\ Commit(clearError(State))
    /\ UNCHANGED <<now, mounted, timeouts, reconnectTimeoutRef, interval, nextTimer,
                   calls, nextSid, streamVars, retryVars, titleVars, outsideVars>>

\* healthCheck resolved
ProbeSucceeds ==
    /\ probes > 0
    /\ probes' = probes - 1
    /\ Commit(clearError(setConnected(State, TRUE)))
    /\ UNCHANGED <<now, mounted, timeouts, reconnectTimeoutRef, interval, nextTimer,
                   calls, nextSid, streamVars, retryVars, titleVars, outsideVars>>

\* healthCheck rejected
ProbeFails ==
    /\ probes > 0
    /\ probes' = probes - 1
    /\ Commit(setError(setConnected(State, FALSE), Reconnecting))
    /\ timeouts' = timeouts \cup {[id |-> nextTimer, at |-> now + ReconnectDelay]}
    /\ reconnectTimeoutRef' = nextTimer
    /\ nextTimer' = nextTimer + 1
    /\ UNCHANGED <<now, mounted, interval, calls, nextSid, streamVars, retryVars, titleVars, outsideVars>>

\* a reconnect timer fires: checkConnection()
TimeoutFires(timer) ==
    /\ timer \in timeouts /\ timer.at = now
    /\ timeouts' = timeouts \ {timer}
    /\ checkConnection
    /\ UNCHANGED <<now, mounted, reconnectTimeoutRef, interval, nextTimer,
                   storeVars, streamVars, retryVars, titleVars, outsideVars>>

\* the interval fires: checkConnection()
IntervalFires ==
    /\ interval # <<>> /\ interval[1] = now
    /\ interval' = <<now + HealthCheckInterval>>
    /\ checkConnection
    /\ UNCHANGED <<now, mounted, timeouts, reconnectTimeoutRef, nextTimer,
                   storeVars, streamVars, retryVars, titleVars, outsideVars>>

\* time passes once every timer that is due has fired
Tick ==
    /\ mounted = "mounted"
    /\ now < MaxTicks * ReconnectDelay
    /\ \A timer \in timeouts : timer.at > now
    /\ \A k \in 1..Len(interval) : interval[k] > now
    /\ now' = now + ReconnectDelay
    /\ UNCHANGED <<mounted, timeouts, reconnectTimeoutRef, interval, probes, nextTimer,
                   storeVars, streamVars, retryVars, titleVars, outsideVars>>

\* the cleanup of the effect
Unmount ==
    /\ mounted = "mounted"
    /\ mounted' = "torn down"
    /\ interval' = <<>>
    /\ timeouts' = {timer \in timeouts : timer.id # reconnectTimeoutRef}
    /\ UNCHANGED <<now, reconnectTimeoutRef, probes, nextTimer, storeVars, streamVars, retryVars, titleVars, outsideVars>>

NextMon ==
    \/ Mount
    \/ ProbeSucceeds
    \/ ProbeFails
    \/ \E timer \in timeouts : TimeoutFires(timer)
    \/ IntervalFires
    \/ Tick
    \/ Unmount

SpecMon == Init /\ [][NextMon]_vars

\* the store and the first probe of the monitor, in a process that restarts
NextRestart ==
    \/ CreateSession
    \/ \E content \in Accepted : SendMessage(content)
    \/ \E i \in Slots : Resume(i)
    \/ \E i \in Slots : SendSucceeds(i)
    \/ \E i \in Slots, e \in StreamErrors : SendFails(i, e)
    \/ Mount
    \/ ProbeSucceeds
    \/ ProbeFails
    \/ Restart

SpecRestart == Init /\ [][NextRestart]_vars

(***************************************************************************)
(* The monitor for as long as its view lives.  Time has no end here: it is *)
(* measured from the present, so that when it passes every pending timer   *)
(* comes one reconnect delay nearer and now stays the origin.  The number  *)
(* of health checks that fail and the number that are pending while time   *)
(* passes are bounded.  The effect runs once the view is rendered, timers  *)
(* that are due fire, health checks settle and time passes: these steps    *)
(* are weakly fair.  The teardown need never happen.                       *)
(***************************************************************************)
MaxFailures == 3    \* health checks that are rejected
MaxPending == 1     \* health checks pending while time passes

ProbeFailsBounded == nextTimer <= MaxFailures /\ ProbeFails

TimePasses ==
    /\ mounted = "mounted"
    /\ probes <= MaxPending
    /\ \A timer \in timeouts : timer.at > now
    /\ \A k \in 1..Len(interval) : interval[k] > now
    /\ timeouts' = {[timer EXCEPT !.at = @ - ReconnectDelay] : timer \in timeouts}
    /\ interval' = [k \in 1..Len(interval) |-> interval[k] - ReconnectDelay]
    /\ UNCHANGED <<now, mounted, reconnectTimeoutRef, probes, nextTimer,
                   storeVars, streamVars, retryVars, titleVars, outsideVars>>

NextMonLive ==
    \/ Mount
    \/ ProbeSucceeds
    \/ ProbeFailsBounded
    \/ \E timer \in timeouts : TimeoutFires(timer)
    \/ IntervalFires
    \/ TimePasses
    \/ Unmount

SpecMonLive ==
    /\ Init
    /\ [][NextMonLive]_vars
    /\ WF_vars(Mount)
    /\ WF_vars(ProbeSucceeds \/ ProbeFailsBounded)
    /\ WF_vars(\E timer \in timeouts : TimeoutFires(timer))
    /\ WF_vars(IntervalFires)
    /\ WF_vars(TimePasses)

(***************************************************************************)
(* Properties of the connection monitor.                                   *)
(***************************************************************************)
\* C39: if from some point on no health check fails and the monitor is
\* never torn down, then from some point on isConnected is true for ever.
C39_EventuallyConnected ==
    <>[][~ProbeFails]_vars /\ [](mounted # "torn down") => <>[]isConnected

\* the last health check that may fail has failed, a later one succeeded
\* and the periodic probe is still armed
C39_Witness ==
    /\ mounted = "mounted"
    /\ nextTimer > MaxFailures
    /\ isConnected
    /\ interval # <<>>

\* C10: at most one reconnect timer is pending.
C10_OneReconnectTimer == Cardinality(timeouts) <= 1

\* C11: once the effect is torn down, neither the interval nor a reconnect
\* timer is pending, also after a probe that was in flight fails.
C11_NoTimerAfterTeardown ==
    mounted = "torn down" => timeouts = {} /\ interval = <<>>


(***************************************************************************)
(* useChat: sendMessageWithRetry.  One call of it runs beside the          *)
(* connection monitor of the same hook; the store calls it makes are the   *)
(* workflows above.  isConnected inside the callback is the value the hook *)
(* read from the store when the callback was made: the call keeps it.      *)
(***************************************************************************)
RetrySlots == 4     \* store calls that one call of sendMessageWithRetry may make

maxRetries == 3
RetryBackoff == 2000

\* whether the promise of sendMessage / streamMessage rejects: both catch
\* every error of their transport call and return, so it never does
storeCallRejects(o) == FALSE

\* attemptSend() up to await streamMessage(...) / await sendMessage(...)
attemptSend(o, st) ==
    /\ Begin(o.kind, o.kind, 0, o.content, st)
    /\ orch' = [o EXCEPT !.pc = "awaiting",
                         !.invocations = @ + 1,
                         !.slot = IF validateMessage(o.content) = NoError
                                  THEN FreeSlot ELSE 0]

SendMessageWithRetry(kind, content) ==
    /\ orch.pc = "idle"
    /\ attemptSend([IdleOrch EXCEPT !.kind = kind, !.content = content,
                                    !.isConnected = isConnected], State)
    /\ UNCHANGED <<streamVars, monVars, titleVars, outsideVars>>

\* attemptSend() resumes: after the await of the store call and, in the catch
\* block, after the backoff and after await checkConnection()
AttemptContinuesUnbounded ==
    /\ orch.pc = "awaiting"
    /\ orch.slot # 0 => calls[orch.slot].pc = "done"
    /\ IF \E s \in {sessions[k] : k \in 1..Len(sessions)} :
              \E k \in 1..Len(s.messages) :
                  /\ s.messages[k].id = generateId(orch.slot, 2)
                  /\ s.messages[k].error # NoError
       THEN attemptSend(orch, State)
       ELSE orch' = [orch EXCEPT !.pc = "resolved"] /\ UNCHANGED storeVars
    /\ UNCHANGED <<streamVars, monVars, titleVars, outsideVars>>

AttemptContinues ==
    /\ orch.pc \in {"awaiting", "waiting", "probing"}
    /\ IF orch.pc = "awaiting"
       THEN /\ orch.slot # 0 => calls[orch.slot].pc = "done"
            /\ IF ~storeCallRejects(orch)
               THEN orch' = [orch EXCEPT !.pc = "resolved"]
               ELSE LET attempt == orch.attempt + 1
                    IN  IF attempt < maxRetries /\ ~orch.isConnected
                        THEN orch' = [orch EXCEPT !.attempt = attempt,
                                                  !.pc = "waiting",
                                                  !.until = now + RetryBackoff * attempt]
                        ELSE orch' = [orch EXCEPT !.attempt = attempt,
                                                  !.pc = "rejected"]
            /\ UNCHANGED <<storeVars, monVars>>
       ELSE IF orch.pc = "waiting"
       THEN /\ now >= orch.until
            /\ checkConnection
            /\ orch' = [orch EXCEPT !.pc = "probing"]
            /\ UNCHANGED <<storeVars, now, mounted, timeouts, reconnectTimeoutRef,
                           interval, nextTimer>>
       ELSE /\ probes = 0
            /\ IF orch.isConnected
               THEN attemptSend(orch, State)
               ELSE orch' = [orch EXCEPT !.pc = "rejected"] /\ UNCHANGED storeVars
            /\ UNCHANGED monVars
    /\ UNCHANGED <<streamVars, titleVars, outsideVars>>

RetryInit ==
    /\ sessions = <<>>
    /\ currentSession = <<>>
    /\ isLoading = FALSE
    /\ error = NoError
    /\ isConnected = TRUE
    /\ calls = [i \in 1..RetrySlots |-> IdleCall]
    /\ nextSid = FirstSid
    /\ StreamOff /\ MonOff /\ RetryOff /\ TitleOff /\ ClockOff /\ NotifyOff /\ RequestOff

NextRetry ==
    \/ \E kind \in {"send", "stream"}, content \in Contents :
           SendMessageWithRetry(kind, content)
    \/ AttemptContinues
    \/ CreateSession
    \/ \E i \in DOMAIN calls : Resume(i)
    \/ \E i \in DOMAIN calls : SendSucceeds(i)
    \/ \E i \in DOMAIN calls, e \in StreamErrors : SendFails(i, e)
    \/ \E i \in DOMAIN calls, chunk \in {Hel, Lo} : StreamChunk(i, chunk)
    \/ \E i \in DOMAIN calls, e \in StreamErrors : StreamError(i, e)
    \/ \E i \in DOMAIN calls : StreamComplete(i)
    \/ Mount
    \/ ProbeSucceeds
    \/ ProbeFails
    \/ \E timer \in timeouts : TimeoutFires(timer)
    \/ IntervalFires
    \/ Tick
    \/ Unmount

SpecRetry == RetryInit /\ [][NextRetry]_vars

(***************************************************************************)
(* Properties of sendMessageWithRetry.                                     *)
(***************************************************************************)
\* the transport call of the attempt that orch awaits failed: its placeholder
\* carries the error
AttemptFailed ==
    /\ orch.slot # 0
    /\ \E s \in AllSessions :
           \E m \in WithId(s.messages, generateId(orch.slot, 2)) : m.error # NoError

\* C29: a health probe that succeeds sets isConnected to true and clears
\* the global error, whatever they were; a probe that fails sets isConnected
\* to false and the global error to the reconnecting message, and sets a
\* timer for ReconnectDelay from now, which makes a probe when it fires.
C29_ProbeTransitions ==
    [][/\ ProbeSucceeds => isConnected' /\ error' = NoError
       /\ ProbeFails
          => /\ ~isConnected'
             /\ error' = Reconnecting
             /\ \E timer \in timeouts' \ timeouts :
                    /\ timer.at = now + ReconnectDelay
                    /\ timer.id = reconnectTimeoutRef'
       /\ \A timer \in timeouts :
              TimeoutFires(timer) => probes' = probes + 1]_vars

\* a probe failed: disconnected, the reconnecting message shown, the retry
\* probe pending
C29_Witness ==
    /\ ~isConnected
    /\ error = Reconnecting
    /\ \E timer \in timeouts : timer.id = reconnectTimeoutRef /\ timer.at > now

\* C30: the global error that a failed request of sendMessage or
\* streamMessage set is left as it is by every step of the connection
\* monitor: a probe made, resolved or rejected, a timer fired, time passing.
C30_ProbesLeaveSendError ==
    [][/\ error \in StreamErrors
       /\ \/ Mount \/ ProbeSucceeds \/ ProbeFails \/ IntervalFires \/ Tick \/ Unmount
          \/ \E timer \in timeouts : TimeoutFires(timer)
       => error' = error]_vars

\* C12: when an attempt failed, attempts remain and the connection is
\* reported lost, sendMessageWithRetry does not return: it goes on to wait
\* before it probes and attempts again.
C12_RetriesWhenDisconnected ==
    [][/\ AttemptContinues /\ orch.pc = "awaiting" /\ AttemptFailed
       /\ orch.attempt + 1 < maxRetries
       /\ ~isConnected /\ ~orch.isConnected
       => orch'.pc = "waiting"]_vars

\* C13: when the first attempt failed and the connection is reported up,
\* sendMessageWithRetry makes no further attempt and its promise rejects.
C13_FailurePropagates ==
    [][/\ AttemptContinues /\ orch.pc = "awaiting" /\ AttemptFailed
       /\ orch.attempt = 0
       /\ isConnected /\ orch.isConnected
       => orch'.pc = "rejected" /\ orch'.invocations = orch.invocations]_vars

\* C14: one call of sendMessageWithRetry calls sendMessage / streamMessage
\* at most maxRetries times.
C14_AtMostMaxRetriesAttempts == orch.invocations <= maxRetries

\* a call returned after its attempt failed while the connection was lost
C14_Witness ==
    /\ orch.pc = "resolved" /\ orch.invocations = 1
    /\ AttemptFailed /\ ~orch.isConnected /\ ~isConnected


(***************************************************************************)
(* generateSessionTitle applied to a first message of words separated by   *)
(* single spaces.                                                          *)
(***************************************************************************)
MaxWords == 8       \* words in the first message

Words == {Run("a", 1), Run("b", 2)}
TitleInputs == UNION {[1..n -> Words] : n \in 1..MaxWords}

\* words.join(' ')
RECURSIVE JoinWords(_)
JoinWords(words) ==
    IF words = <<>> THEN <<>>
    ELSE IF Len(words) = 1 THEN words[1]
    ELSE Cat(Cat(words[1], Run(" ", 1)), JoinWords(Tail(words)))

\* titleArg holds the words of firstMessage
GenerateSessionTitle ==
    /\ titleArg # <<>> /\ titleRet = <<>>
    /\ titleRet' = <<generateSessionTitle(JoinWords(titleArg))>>
    /\ UNCHANGED <<titleArg, storeVars, streamVars, monVars, retryVars, outsideVars>>

TitleInit ==
    /\ StoreInit /\ StreamOff /\ MonOff /\ RetryOff /\ ClockOff /\ NotifyOff /\ RequestOff
    /\ titleArg \in TitleInputs /\ titleRet = <<>>

NextTitle == GenerateSessionTitle

SpecTitle == TitleInit /\ [][NextTitle]_vars

\* C18: the title of a message of n words separated by single spaces is its
\* first min(n, 6) words joined by spaces, followed by '...' exactly when
\* n > 6.
C18_TitleIsFirstSixWords ==
    titleRet # <<>>
    => LET n == Len(titleArg)
           kept == JoinWords(SubSeq(titleArg, 1, IF n < 6 THEN n ELSE 6))
       IN  titleRet[1] = IF n > 6 THEN kept \o Run(".", 3) ELSE kept

\* the title of a message of seven words was derived
C18_Witness == titleRet # <<>> /\ Len(titleArg) = 7

====
